---------------------------- MODULE Spec2Model ----------------------------
(***************************************************************************)
(* A model of the AnyType library (github.com/DanielSvub/anytype): the     *)
(* tagged values, the List and Object containers living on a heap of       *)
(* references, the JSON serializer and parser, the tree-form resolver and  *)
(* the asynchronous fan-out helpers.                                       *)
(*                                                                         *)
(* Text is modelled as a sequence of runes, each rune a one-character      *)
(* string.  Go indexes from 0, TLA+ sequences from 1: positions keep Go's  *)
(* numbering and rune i of s is s[i + 1].                                  *)
(***************************************************************************)
EXTENDS Integers, Sequences, FiniteSets, TLC

VARIABLES heap, pc, arg, ret, text, wg, mutex, workers, calls

vars == <<heap, pc, arg, ret, text, wg, mutex, workers, calls>>

(***************************************************************************)
(* Bounds of the model.                                                    *)
(***************************************************************************)
\* Longest list handed to a constructor.
MaxLen == 2
\* Longest run of arbitrary runes written after a closed nested value.
MaxTail == 3
\* Most segments in a tree-form path.
MaxPath == 2
\* Most elements of the receiver of an asynchronous call.
MaxAsync == 3

(***************************************************************************)
(* Runes.                                                                  *)
(***************************************************************************)
DigitRunes == <<"0", "1", "2", "3", "4", "5", "6", "7", "8", "9">>

IsDigit(c) == \E d \in 1..10 : DigitRunes[d] = c

DigitVal(c) == (CHOOSE d \in 1..10 : DigitRunes[d] = c) - 1

\* The byte 0xa0 standing alone: utf8.DecodeRuneInString yields RuneError.
BadByte == "\\xa0"

\* unicode.IsSpace on the runes of the model.
IsSpace(c) == c \in {" ", "\n", "\t", "\r"}

RECURSIVE Concat(_)
\* The concatenation of a sequence of rune sequences.
Concat(parts) ==
    IF parts = << >> THEN << >> ELSE Head(parts) \o Concat(Tail(parts))

RECURSIVE Index(_, _)
\* strings.Index(s, c) for a single rune c: the 0-based position of the
\* first c in s, -1 when there is none.
Index(s, c) ==
    IF s = << >> THEN -1
    ELSE IF Head(s) = c THEN 0
    ELSE LET r == Index(Tail(s), c) IN IF r < 0 THEN -1 ELSE r + 1

\* s[from:] of Go (0-based from).
From(s, from) == SubSeq(s, from + 1, Len(s))

\* s[:to] of Go (0-based, to excluded).
Upto(s, to) == SubSeq(s, 1, to)


(***************************************************************************)
(* The strconv functions the library calls, on the runes of the model.     *)
(* Integers are exact while they fit a 32-bit word (at most 9 digits);     *)
(* the bounds keep every number of the model inside that range.            *)
(***************************************************************************)
LetterRunes == <<"a", "b", "c", "d", "e", "f", "g", "h", "i", "j", "k", "l", "m",
                 "n", "o", "p", "q", "r", "s", "t", "u", "v", "w", "x", "y", "z">>

\* The value of a rune as a digit of strconv.ParseUint: 0..9, a..z as
\* 10..35, anything else 99 (no digit of any base).
DigitOf(c) ==
    IF IsDigit(c) THEN DigitVal(c)
    ELSE IF \E d \in 1..26 : LetterRunes[d] = c
         THEN 9 + (CHOOSE d \in 1..26 : LetterRunes[d] = c)
         ELSE 99

RECURSIVE NatDigits(_)
\* The decimal digits of a natural number.
NatDigits(n) ==
    IF n < 10 THEN <<DigitRunes[n + 1]>>
    ELSE NatDigits(n \div 10) \o <<DigitRunes[(n % 10) + 1]>>

\* strconv.Itoa
Itoa(n) == IF n < 0 THEN <<"-">> \o NatDigits(-n) ELSE NatDigits(n)

RECURSIVE DigitsValue(_, _, _)
\* The value of the digits s in the given base, accumulated from acc.
DigitsValue(s, base, acc) ==
    IF s = << >> THEN acc
    ELSE DigitsValue(Tail(s), base, acc * base + DigitOf(Head(s)))

\* strconv.ParseUint(s, 0, 64): the base is read from the prefix ("0b",
\* "0o", "0x", a leading "0" for octal, decimal otherwise).  Upper-case
\* prefixes and digits and the underscore separator of Go are outside the
\* texts of the model.
ParseUint(s) ==
    LET prefixed == Len(s) >= 3 /\ s[2] \in {"b", "o", "x"}
        digits(base, rest) ==
            IF \A k \in 1..Len(rest) : DigitOf(rest[k]) < base
            THEN [ok |-> TRUE, val |-> DigitsValue(rest, base, 0)]
            ELSE [ok |-> FALSE, val |-> 0]
    IN  IF s = << >> THEN [ok |-> FALSE, val |-> 0]
        ELSE digits(IF s[1] # "0" THEN 10
                    ELSE IF ~prefixed THEN 8
                    ELSE IF s[2] = "b" THEN 2 ELSE IF s[2] = "o" THEN 8 ELSE 16,
                    IF s[1] # "0" THEN s ELSE IF prefixed THEN From(s, 2) ELSE From(s, 1))

\* strconv.ParseInt(s, 0, bits.UintSize)
ParseInt(s) ==
    LET signed(un) ==
            IF un.ok THEN [ok |-> TRUE, val |-> IF s[1] = "-" THEN -un.val ELSE un.val]
            ELSE [ok |-> FALSE, val |-> 0]
    IN  IF s = << >> THEN [ok |-> FALSE, val |-> 0]
        ELSE signed(ParseUint(IF s[1] \in {"+", "-"} THEN From(s, 1) ELSE s))

\* strconv.ParseBool
ParseBool(s) ==
    IF s \in {<<"1">>, <<"t">>, <<"t", "r", "u", "e">>} THEN [ok |-> TRUE, val |-> TRUE]
    ELSE IF s \in {<<"0">>, <<"f">>, <<"f", "a", "l", "s", "e">>} THEN [ok |-> TRUE, val |-> FALSE]
    ELSE [ok |-> FALSE, val |-> FALSE]

(***************************************************************************)
(* A float64 is <<"num", m, e>>, the number m * 10^e with m not divisible   *)
(* by 10 (0 is <<"num", 0, 0>>), or <<"nan">>, or <<"inf", sign>>.         *)
(***************************************************************************)
RECURSIVE Normalize(_, _)
Normalize(m, e) ==
    IF m = 0 THEN <<"num", 0, 0>>
    ELSE IF m % 10 = 0 THEN Normalize(m \div 10, e + 1)
    ELSE <<"num", m, e>>

NaN == <<"nan">>

Abs(n) == IF n < 0 THEN -n ELSE n

\* The decimal exponent of a finite non-zero float: it is d.ddd * 10^Exp10.
Exp10(f) == f[3] + Len(NatDigits(Abs(f[2]))) - 1

\* The digits of math.MaxFloat64, 1.7976931348623157e308.
MaxFloatDigits == <<"1", "7", "9", "7", "6", "9", "3", "1", "3", "4", "8", "6", "2", "3", "1", "5", "7">>

RECURSIVE DigitsAbove(_, _)
\* Whether the digit string a is above the digit string b, both read as
\* d.ddd with missing digits 0.
DigitsAbove(a, b) ==
    IF a = << >> THEN FALSE
    ELSE IF b = << >> THEN \E k \in 1..Len(a) : a[k] # "0"
    ELSE IF DigitVal(Head(a)) # DigitVal(Head(b)) THEN DigitVal(Head(a)) > DigitVal(Head(b))
    ELSE DigitsAbove(Tail(a), Tail(b))

\* The runes of s up to the first rune that is no decimal digit.
RECURSIVE LeadingDigits(_)
LeadingDigits(s) ==
    IF s = << >> \/ ~IsDigit(Head(s)) THEN << >>
    ELSE <<Head(s)>> \o LeadingDigits(Tail(s))

\* strconv.ParseFloat(s, 64) on decimal input: [sign] digits [. digits]
\* [e [sign] digits], "nan" | "NaN", and [sign] "inf" | "Inf" |
\* "infinity" (the spellings of the model; Go ignores case).  A value
\* above MaxFloat64 is a range error, one below the smallest float is 0.
ParseFloat(s) ==
    LET bad == [ok |-> FALSE, val |-> NaN]
        neg == s # << >> /\ s[1] = "-"
        inRange(f, x) ==
            IF x > 308 \/ (x = 308 /\ DigitsAbove(NatDigits(Abs(f[2])), MaxFloatDigits)) THEN bad
            ELSE IF x < -324 THEN [ok |-> TRUE, val |-> <<"num", 0, 0>>]
            ELSE [ok |-> TRUE, val |-> f]
        finite(f) == IF f[2] = 0 THEN [ok |-> TRUE, val |-> f] ELSE inRange(f, Exp10(f))
        scaled(m, e) == finite(Normalize(IF neg THEN -m ELSE m, e))
        exponent(mant, scale, rest) ==
            LET signed == Len(rest) >= 2 /\ rest[2] \in {"+", "-"}
                value(expDigits) ==
                    IF expDigits = << >> \/ \E k \in 1..Len(expDigits) : ~IsDigit(expDigits[k])
                    THEN bad
                    ELSE scaled(DigitsValue(mant, 10, 0),
                                (IF signed /\ rest[2] = "-" THEN -1 ELSE 1)
                                    * DigitsValue(expDigits, 10, 0) - scale)
            IN  IF mant = << >> \/ (rest # << >> /\ rest[1] \notin {"e", "E"}) THEN bad
                ELSE value(IF rest = << >> THEN <<"0">> ELSE From(rest, IF signed THEN 2 ELSE 1))
        fraction(ip, fp, rest) == exponent(ip \o fp, Len(fp), From(rest, 1 + Len(fp)))
        integer(ip, rest) ==
            fraction(ip, IF rest # << >> /\ rest[1] = "." THEN LeadingDigits(From(rest, 1)) ELSE << >>,
                     IF rest # << >> /\ rest[1] = "." THEN rest ELSE <<".">> \o rest)
        mantissa(body, ip) == integer(ip, From(body, Len(ip)))
        number(body) ==
            IF body \in {<<"i", "n", "f">>, <<"I", "n", "f">>,
                         <<"i", "n", "f", "i", "n", "i", "t", "y">>}
            THEN [ok |-> TRUE, val |-> <<"inf", IF neg THEN -1 ELSE 1>>]
            ELSE mantissa(body, LeadingDigits(body))
    IN  IF s \in {<<"n", "a", "n">>, <<"N", "a", "N">>} THEN [ok |-> TRUE, val |-> NaN]
        ELSE number(IF s # << >> /\ s[1] \in {"+", "-"} THEN From(s, 1) ELSE s)

RECURSIVE Zeros(_)
Zeros(k) == IF k <= 0 THEN << >> ELSE <<"0">> \o Zeros(k - 1)

\* strconv.FormatFloat(f, 'f', -1, 64): fixed notation, shortest digits.
FormatFixed(f) ==
    LET sign == IF f[2] < 0 THEN <<"-">> ELSE << >>
        point(d, k) ==
            IF Len(d) > k THEN sign \o SubSeq(d, 1, Len(d) - k) \o <<".">> \o SubSeq(d, Len(d) - k + 1, Len(d))
            ELSE sign \o <<"0", ".">> \o Zeros(k - Len(d)) \o d
    IN  IF f[3] >= 0 THEN sign \o NatDigits(Abs(f[2])) \o Zeros(f[3])
        ELSE point(NatDigits(Abs(f[2])), -f[3])

\* strconv.FormatFloat(f, 'e', -1, 64): d.ddde+XX, at least two exponent
\* digits.
FormatExp(f) ==
    LET sign == IF f[2] < 0 THEN <<"-">> ELSE << >>
        exponent(x, xd) ==
            <<"e", IF x < 0 THEN "-" ELSE "+">> \o (IF Len(xd) < 2 THEN <<"0">> ELSE << >>) \o xd
        digits(d, x) ==
            sign \o <<d[1]>> \o (IF Len(d) > 1 THEN <<".">> \o Tail(d) ELSE << >>)
                 \o exponent(x, NatDigits(Abs(x)))
    IN  digits(NatDigits(Abs(f[2])), Exp10(f))

\* abs >= math.Pow10(6) || (abs > 0 && abs <= math.Pow10(-6))
UsesExponent(f) ==
    LET exponential(x) == x >= 6 \/ x < -6 \/ (x = -6 /\ Abs(f[2]) = 1)
    IN  f[2] # 0 /\ exponential(Exp10(f))


RECURSIVE QuoteRunes(_)
\* The body of strconv.Quote(s): the runes of s with the quote, the
\* backslash, the control runes and the invalid byte escaped.
QuoteRunes(s) ==
    IF s = << >> THEN << >>
    ELSE LET c == Head(s)
             e == CASE c = "\"" -> <<"\\", "\"">>
                    [] c = "\\" -> <<"\\", "\\">>
                    [] c = "\n" -> <<"\\", "n">>
                    [] c = "\t" -> <<"\\", "t">>
                    [] c = "\r" -> <<"\\", "r">>
                    [] c = BadByte -> <<"\\", "x", "a", "0">>
                    [] OTHER -> <<c>>
         IN  e \o QuoteRunes(Tail(s))

\* strconv.Quote
Quote(s) == <<"\"">> \o QuoteRunes(s) \o <<"\"">>

RECURSIVE UnquoteRunes(_)
\* strconv.Unquote on the inside of a double-quoted literal: the escapes
\* \" \\ \n \t \r and \xa0 are resolved, a raw line break, a raw quote, a
\* trailing backslash or another escape is a syntax error.  The escapes
\* \a \b \f \v \', octal, \x, \u and \U of Go are outside the texts of the
\* model.
UnquoteRunes(s) ==
    LET bad == [ok |-> FALSE, val |-> << >>]
        cons(out, r) == IF r.ok THEN [ok |-> TRUE, val |-> <<out>> \o r.val] ELSE bad
        escape(c) ==
            IF c \in {"\"", "\\"} THEN cons(c, UnquoteRunes(From(s, 2)))
            ELSE IF c = "n" THEN cons("\n", UnquoteRunes(From(s, 2)))
            ELSE IF c = "t" THEN cons("\t", UnquoteRunes(From(s, 2)))
            ELSE IF c = "r" THEN cons("\r", UnquoteRunes(From(s, 2)))
            ELSE IF c = "x" /\ Len(s) >= 4 /\ s[3] = "a" /\ s[4] = "0"
                 THEN cons(BadByte, UnquoteRunes(From(s, 4)))
            ELSE bad
    IN  IF s = << >> THEN [ok |-> TRUE, val |-> << >>]
        ELSE IF Head(s) \in {"\n", "\""} THEN bad
        ELSE IF Head(s) # "\\" THEN cons(Head(s), UnquoteRunes(Tail(s)))
        ELSE IF Len(s) < 2 THEN bad
        ELSE escape(s[2])

\* strconv.Unquote(fmt.Sprintf(`"%s"`, s))
Unquote(s) == UnquoteRunes(s)

(***************************************************************************)
(* Tagged values.  A field is <<tag, payload>>: the tag is the dynamic     *)
(* type of the Go value behind the field interface, the payload its val    *)
(* (for a list or an object, the address of the container on the heap).    *)
(***************************************************************************)
TypeUndefined == "undefined"
TypeNil == "nil"
TypeObject == "object"
TypeList == "list"
TypeString == "string"
TypeBool == "bool"
TypeInt == "int"
TypeFloat == "float"

newNil == <<TypeNil, 0>>
newString(val) == <<TypeString, val>>
newBool(val) == <<TypeBool, val>>
newInt(val) == <<TypeInt, val>>
newFloat(val) == <<TypeFloat, val>>

\* The nil interface value: what a Go map lookup yields for a missing key.
NoField == <<"<nil>", 0>>

(***************************************************************************)
(* A native Go value handed to the library is <<Go type, value>>.  The     *)
(* value a getter hands back is native too: "List" and "Object" carry the  *)
(* address of the container.                                               *)
(***************************************************************************)
SignedTypes == {"int", "int8", "int16", "int32", "int64"}
UnsignedTypes == {"uint", "uint8", "uint16", "uint32", "uint64"}
IntegerTypes == SignedTypes \cup UnsignedTypes

\* The Go types parseVal's type switch has a case for, for integers.
parseValUnsignedCases == {"uint64", "uint32", "uint16", "uint8"}

\* parseVal: the field of a native value, or a panic ("Unknown type.").
\* The cases for native slices and maps are not among the inputs of the
\* model.
parseVal(val) ==
    CASE val[1] = "Object" -> [panic |-> FALSE, f |-> <<TypeObject, val[2]>>]
      [] val[1] = "List" -> [panic |-> FALSE, f |-> <<TypeList, val[2]>>]
      [] val[1] = "string" -> [panic |-> FALSE, f |-> newString(val[2])]
      [] val[1] = "bool" -> [panic |-> FALSE, f |-> newBool(val[2])]
      [] val[1] \in SignedTypes -> [panic |-> FALSE, f |-> newInt(val[2])]
      [] val[1] \in parseValUnsignedCases -> [panic |-> FALSE, f |-> newInt(val[2])]
      [] val[1] \in {"float64", "float32"} -> [panic |-> FALSE, f |-> newFloat(val[2])]
      [] val[1] = "nil" -> [panic |-> FALSE, f |-> newNil]
      [] OTHER -> [panic |-> TRUE, f |-> NoField]

\* getVal of the atomic types, of list and of object: the native value.
getVal(f) ==
    CASE f[1] = TypeObject -> <<"Object", f[2]>>
      [] f[1] = TypeList -> <<"List", f[2]>>
      [] f[1] = TypeString -> <<"string", f[2]>>
      [] f[1] = TypeBool -> <<"bool", f[2]>>
      [] f[1] = TypeInt -> <<"int", f[2]>>
      [] f[1] = TypeFloat -> <<"float64", f[2]>>
      [] OTHER -> <<"nil", 0>>

\* ego.val == float.val on float64: a NaN equals nothing.
FloatEq(a, b) == a # NaN /\ b # NaN /\ a = b

\* isEqual of atString, atBool, atInt, atFloat and atNil: the type
\* assertion on the other field, then the comparison of the values.
atomIsEqual(ego, another) ==
    /\ another[1] = ego[1]
    /\ CASE ego[1] = TypeFloat -> FloatEq(ego[2], another[2])
         [] ego[1] = TypeNil -> TRUE
         [] OTHER -> ego[2] = another[2]

\* serialize of the atomic types.
atomSerialize(f) ==
    CASE f[1] = TypeString -> Quote(f[2])
      [] f[1] = TypeBool -> IF f[2] THEN <<"t", "r", "u", "e">> ELSE <<"f", "a", "l", "s", "e">>
      [] f[1] = TypeInt -> Itoa(f[2])
      [] f[1] = TypeFloat ->
            IF f[2] = NaN THEN <<"N", "a", "N">>
            ELSE IF f[2][1] = "inf" THEN <<IF f[2][2] < 0 THEN "-" ELSE "+", "I", "n", "f">>
            ELSE IF UsesExponent(f[2]) THEN FormatExp(f[2]) ELSE FormatFixed(f[2])
      [] OTHER -> <<"n", "u", "l", "l">>


(***************************************************************************)
(* The heap: a sequence of containers, the address of a container its     *)
(* position.  A list is the sequence of its fields (ego.val), an object    *)
(* the function from its keys to its fields.  An operation that can panic  *)
(* yields the heap as the panic leaves it.                                 *)
(***************************************************************************)
\* The map m with m[key] = f.
MapSet(m, key, f) == [k \in DOMAIN m \cup {key} |-> IF k = key THEN f ELSE m[k]]

\* delete(m, key)
MapDelete(m, key) == [k \in DOMAIN m \ {key} |-> m[k]]

EmptyMap == [k \in {} |-> NoField]

listCount(h, ego) == Len(h[ego])

RECURSIVE listAdd(_, _, _)
\* list.Add(values...): each value is converted and appended in turn.
listAdd(h, ego, values) ==
    LET add(p) ==
            IF p.panic THEN [h |-> h, panic |-> TRUE]
            ELSE listAdd([h EXCEPT ![ego] = Append(@, p.f)], ego, Tail(values))
    IN  IF values = << >> THEN [h |-> h, panic |-> FALSE] ELSE add(parseVal(Head(values)))

\* NewList(values...)
NewList(h, values) ==
    LET made(a) == [h |-> a.h, panic |-> a.panic, ego |-> Len(h) + 1]
    IN  made(listAdd(Append(h, << >>), Len(h) + 1, values))

\* NewListOf(value, count)
NewListOf(h, value, count) ==
    LET made(elem) ==
            IF elem.panic THEN [h |-> Append(h, << >>), panic |-> TRUE, ego |-> Len(h) + 1]
            ELSE [h |-> Append(h, [i \in 1..count |-> elem.f]), panic |-> FALSE, ego |-> Len(h) + 1]
    IN  made(parseVal(value))

\* list.Insert(index, value)
listInsert(h, ego, index, value) ==
    LET put(p) ==
            IF p.panic THEN [h |-> [h EXCEPT ![ego] = Upto(@, index + 1) \o From(@, index)],
                             panic |-> TRUE]
            ELSE [h |-> [h EXCEPT ![ego] = Upto(@, index) \o <<p.f>> \o From(@, index)],
                  panic |-> FALSE]
    IN  IF index < 0 \/ index > listCount(h, ego) THEN [h |-> h, panic |-> TRUE]
        ELSE IF index = listCount(h, ego) THEN listAdd(h, ego, <<value>>)
        ELSE put(parseVal(value))

\* A variant of Replace that adds the value at index == Count(), as Insert
\* does.
listReplaceOrAdd(h, ego, index, value) ==
    LET put(p) ==
            IF p.panic THEN [h |-> h, panic |-> TRUE]
            ELSE [h |-> [h EXCEPT ![ego][index + 1] = p.f], panic |-> FALSE]
    IN  IF index < 0 \/ index > listCount(h, ego) THEN [h |-> h, panic |-> TRUE]
        ELSE IF index = listCount(h, ego) THEN listAdd(h, ego, <<value>>)
        ELSE put(parseVal(value))

\* list.Replace(index, value)
listReplace(h, ego, index, value) ==
    LET put(p) ==
            IF p.panic THEN [h |-> h, panic |-> TRUE]
            ELSE [h |-> [h EXCEPT ![ego][index + 1] = p.f], panic |-> FALSE]
    IN  IF index < 0 \/ index >= listCount(h, ego) THEN [h |-> h, panic |-> TRUE]
        ELSE put(parseVal(value))

\* list.Get(index)
listGet(h, ego, index) ==
    IF Len(h[ego]) <= index \/ index < 0 THEN [panic |-> TRUE, val |-> <<"nil", 0>>]
    ELSE [panic |-> FALSE, val |-> getVal(h[ego][index + 1])]

\* list.GetObject(index)
listGetObject(h, ego, index) ==
    LET typed(g) == [panic |-> g.panic \/ g.val[1] # "Object", val |-> g.val]
    IN  typed(listGet(h, ego, index))

\* list.GetList(index)
listGetList(h, ego, index) ==
    LET typed(g) == [panic |-> g.panic \/ g.val[1] # "List", val |-> g.val]
    IN  typed(listGet(h, ego, index))

\* list.TypeOf(index)
listTypeOf(h, ego, index) ==
    IF index >= 0 /\ index < listCount(h, ego) THEN h[ego][index + 1][1]
    ELSE TypeUndefined

objectCount(h, ego) == Cardinality(DOMAIN h[ego])

RECURSIVE objectSetPairs(_, _, _)
\* The loop of object.Set over the key-value pairs.
objectSetPairs(h, ego, values) ==
    LET put(p) ==
            IF p.panic THEN [h |-> h, panic |-> TRUE]
            ELSE objectSetPairs([h EXCEPT ![ego] = MapSet(@, values[1][2], p.f)],
                                ego, From(values, 2))
    IN  IF values = << >> THEN [h |-> h, panic |-> FALSE]
        ELSE IF values[1][1] # "string" THEN [h |-> h, panic |-> TRUE]
        ELSE put(parseVal(values[2]))

\* object.Set(values...)
objectSet(h, ego, values) ==
    IF Len(values) % 2 # 0 THEN [h |-> h, panic |-> TRUE]
    ELSE objectSetPairs(h, ego, values)

RECURSIVE objectUnset(_, _, _)
\* object.Unset(keys...): each key in turn is looked up and deleted; a key
\* the object does not hold panics.
objectUnset(h, ego, keys) ==
    IF keys = << >> THEN [h |-> h, panic |-> FALSE]
    ELSE IF Head(keys) \notin DOMAIN h[ego] THEN [h |-> h, panic |-> TRUE]
    ELSE objectUnset([h EXCEPT ![ego] = MapDelete(@, Head(keys))], ego, Tail(keys))

\* NewObject(values...)
NewObject(h, values) ==
    LET made(a) == [h |-> a.h, panic |-> a.panic, ego |-> Len(h) + 1]
    IN  made(objectSet(Append(h, EmptyMap), Len(h) + 1, values))

\* object.KeyExists(key)
objectKeyExists(h, ego, key) == key \in DOMAIN h[ego]

\* object.Get(key)
objectGet(h, ego, key) ==
    IF key \notin DOMAIN h[ego] THEN [panic |-> TRUE, val |-> <<"nil", 0>>]
    ELSE [panic |-> FALSE, val |-> getVal(h[ego][key])]

\* object.GetObject(key)
objectGetObject(h, ego, key) ==
    LET typed(g) == [panic |-> g.panic \/ g.val[1] # "Object", val |-> g.val]
    IN  typed(objectGet(h, ego, key))

\* object.GetList(key)
objectGetList(h, ego, key) ==
    LET typed(g) == [panic |-> g.panic \/ g.val[1] # "List", val |-> g.val]
    IN  typed(objectGet(h, ego, key))

\* object.TypeOf(key)
objectTypeOf(h, ego, key) ==
    IF ~objectKeyExists(h, ego, key) THEN TypeUndefined ELSE h[ego][key][1]


(***************************************************************************)
(* copy, isEqual and serialize of the field interface.                     *)
(***************************************************************************)
RECURSIVE copy(_, _)
RECURSIVE listCopyLoop(_, _, _, _)
RECURSIVE objectCopyLoop(_, _, _, _)
RECURSIVE isEqual(_, _, _)
RECURSIVE Serializations(_, _)
RECURSIVE listBodies(_, _)
RECURSIVE objectBodies(_, _, _)
RECURSIVE ToTree(_, _)

\* A variant of the copy of an element that hands the element itself on: a
\* nested container is shared with the copy.
elemCopyShared(h, value) == [h |-> h, val |-> getVal(value)]

\* value.copy() of one element or field of a container being copied.
elemCopy(h, value) == copy(h, value)

\* The loop of list.copy: list.val[i] = parseVal(value.copy()).
listCopyLoop(h, src, dst, i) ==
    LET store(c) == listCopyLoop([c.h EXCEPT ![dst][i] = parseVal(c.val).f], src, dst, i + 1)
    IN  IF i > Len(h[src]) THEN [h |-> h, val |-> <<"List", dst>>]
        ELSE store(elemCopy(h, h[src][i]))

\* The loop of object.copy: obj.Set(key, value.copy()).  The order of the
\* keys decides only the addresses of the copies.
objectCopyLoop(h, src, dst, keys) ==
    LET store(key, c) ==
            objectCopyLoop(objectSet(c.h, dst, <<<<"string", key>>, c.val>>).h,
                           src, dst, keys \ {key})
        next(key) == store(key, elemCopy(h, h[src][key]))
    IN  IF keys = {} THEN [h |-> h, val |-> <<"Object", dst>>]
        ELSE next(CHOOSE k \in keys : TRUE)

\* copy of a field: the native value of an atom, a new container holding
\* copies for a list or an object.
copy(h, f) ==
    CASE f[1] = TypeList ->
            listCopyLoop(Append(h, [i \in 1..listCount(h, f[2]) |-> NoField]),
                         f[2], Len(h) + 1, 1)
      [] f[1] = TypeObject ->
            objectCopyLoop(NewObject(h, << >>).h, f[2], Len(h) + 1, DOMAIN h[f[2]])
      [] OTHER -> [h |-> h, val |-> getVal(f)]

\* list.Clone()
listClone(h, ego) == copy(h, <<TypeList, ego>>)

\* object.Clone()
objectClone(h, ego) == copy(h, <<TypeObject, ego>>)

\* A variant of the callback of Merge that keeps a value the result has.
objectMergeSetKeep(h, result, key, val) ==
    IF key \in DOMAIN h[result] THEN h
    ELSE objectSet(h, result, <<<<"string", key>>, val>>).h

\* The callback Merge passes to ForEach: result.Set(key, val).
objectMergeSet(h, result, key, val) == objectSet(h, result, <<<<"string", key>>, val>>).h

RECURSIVE objectMergeLoop(_, _, _, _)
\* another.ForEach(...) of Merge: the callback gets each key of another
\* with the native value of its field.  The keys are distinct, so their
\* order does not change the result.
objectMergeLoop(h, result, another, keys) ==
    LET next(key) ==
            objectMergeLoop(objectMergeSet(h, result, key, getVal(h[another][key])),
                            result, another, keys \ {key})
    IN  IF keys = {} THEN h ELSE next(CHOOSE k \in keys : TRUE)

\* object.Merge(another): the clone of the object with the fields of
\* another set in it.
objectMerge(h, ego, another) ==
    LET merged(c) == [h |-> objectMergeLoop(c.h, c.val[2], another, DOMAIN c.h[another]),
                      val |-> c.val]
    IN  merged(objectClone(h, ego))

\* The first test of list.isEqual: the other field is a list of the same
\* count.
listSameShape(h, ego, another) ==
    another[1] = TypeList /\ listCount(h, ego) = listCount(h, another[2])

\* A variant of the first test of object.isEqual that leaves the counts
\* uncompared.
objectSameShapeNoCount(h, ego, another) == another[1] = TypeObject

\* The first test of object.isEqual: the other field is an object of the
\* same count.
objectSameShape(h, ego, another) ==
    another[1] = TypeObject /\ objectCount(h, ego) = objectCount(h, another[2])

\* isEqual: for a list the elements pairwise by index, for an object the
\* fields of the receiver's keys (a key the other object lacks reads as the
\* nil field), for an atom atomIsEqual.
isEqual(h, ego, another) ==
    CASE ego[1] = TypeList ->
            /\ listSameShape(h, ego[2], another)
            /\ \A i \in 1..listCount(h, ego[2]) :
                    isEqual(h, h[ego[2]][i], h[another[2]][i])
      [] ego[1] = TypeObject ->
            /\ objectSameShape(h, ego[2], another)
            /\ \A k \in DOMAIN h[ego[2]] :
                    isEqual(h, h[ego[2]][k],
                            IF k \in DOMAIN h[another[2]] THEN h[another[2]][k] ELSE NoField)
      [] OTHER -> atomIsEqual(ego, another)

\* list.Equals(another)
listEquals(h, ego, another) == isEqual(h, <<TypeList, ego>>, another)

\* object.Equals(another)
objectEquals(h, ego, another) == isEqual(h, <<TypeObject, ego>>, another)

\* The texts list.serialize can write for the elements elems, commas
\* between them.
listBodies(h, elems) ==
    IF elems = << >> THEN {<< >>}
    ELSE {first \o (IF Len(elems) > 1 THEN <<",">> ELSE << >>) \o rest :
            first \in Serializations(h, Head(elems)), rest \in listBodies(h, Tail(elems))}

\* The texts object.serialize can write for the fields keys of the object
\* ego: Go ranges over a map in an order of its choosing.
objectBodies(h, ego, keys) ==
    IF keys = {} THEN {<< >>}
    ELSE UNION {{Quote(k) \o <<":">> \o first \o (IF keys # {k} THEN <<",">> ELSE << >>) \o rest :
                    first \in Serializations(h, h[ego][k]),
                    rest \in objectBodies(h, ego, keys \ {k})} : k \in keys}

\* serialize: every text the field can serialize to.
Serializations(h, f) ==
    CASE f[1] = TypeList -> {<<"[">> \o body \o <<"]">> : body \in listBodies(h, h[f[2]])}
      [] f[1] = TypeObject ->
            {<<"{">> \o body \o <<"}">> : body \in objectBodies(h, f[2], DOMAIN h[f[2]])}
      [] OTHER -> {atomSerialize(f)}

\* The value of a field with the addresses resolved: <<"list", trees>>,
\* <<"object", trees by key>>, or the atom itself.
ToTree(h, f) ==
    CASE f[1] = TypeList -> <<TypeList, [i \in 1..Len(h[f[2]]) |-> ToTree(h, h[f[2]][i])]>>
      [] f[1] = TypeObject -> <<TypeObject, [k \in DOMAIN h[f[2]] |-> ToTree(h, h[f[2]][k])]>>
      [] OTHER -> f


(***************************************************************************)
(* The JSON parser.  A parse carries its variables in a record: state, i   *)
(* (the byte offset into json), the container being built, the key and     *)
(* val builders, inVal, line (the counter all nested parses share) and     *)
(* the heap.  ret is "" while the loop runs, "ok" on return of the         *)
(* container, else the error: "encoding", "value" (invalid value),         *)
(* "token" (an unexpected rune) or "end" (unexpected end of input);        *)
(* errLine is the line number the error message carries, 0 when the        *)
(* message carries none.                                                   *)
(***************************************************************************)
stateStart == "stateStart"
stateKeyStart == "stateKeyStart"
stateKey == "stateKey"
stateKeyEscape == "stateKeyEscape"
stateAfterKey == "stateAfterKey"
stateVal == "stateVal"
stateAfterVal == "stateAfterVal"
stateValEscape == "stateValEscape"
stateValString == "stateValString"
stateValAfterString == "stateValAfterString"

\* parseField(field, line): null, then an integer, then a float, then a
\* boolean; the first that parses wins.
parseField(field, line) ==
    LET found(val) == [ok |-> TRUE, val |-> val, errLine |-> 0]
        boolean(b) ==
            IF b.ok THEN found(<<"bool", b.val>>)
            ELSE [ok |-> FALSE, val |-> <<"nil", 0>>, errLine |-> line]
        float(f) == IF f.ok THEN found(<<"float64", f.val>>) ELSE boolean(ParseBool(field))
        integer(n) == IF n.ok THEN found(<<"int", n.val>>) ELSE float(ParseFloat(field))
    IN  IF field = <<"n", "u", "l", "l">> THEN found(<<"nil", 0>>)
        ELSE integer(ParseInt(field))

RECURSIVE parseList(_, _, _)
RECURSIVE parseObject(_, _, _)
RECURSIVE parseListLoop(_, _)
RECURSIVE parseObjectLoop(_, _)

\* The return of a nested parse, taken over by the parse that called it:
\* its error, or the container stored by `store` and the offset moved
\* behind it.
afterNested(ps, r, stored) ==
    IF r.err # "" THEN [ps EXCEPT !.ret = r.err, !.errLine = r.errLine, !.line = r.line, !.h = r.h]
    ELSE [stored EXCEPT !.i = ps.i + r.pos, !.line = r.line]

\* strconv.Unquote with its error dropped: the empty string on an error.
unquoted(s) ==
    LET dropped(r) == IF r.ok THEN r.val ELSE << >>
    IN  dropped(Unquote(s))

\* parseList, case stateVal.
listVal(json, ps, char) ==
    LET nested(type, r) ==
            afterNested(ps, r, [ps EXCEPT !.h = listAdd(r.h, ps.list, <<<<type, r.val>>>>).h])
        closed(s) == IF char = "]" THEN [s EXCEPT !.ret = "ok"] ELSE s
        added(field) ==
            IF ~field.ok THEN [ps EXCEPT !.ret = "value", !.errLine = field.errLine]
            ELSE closed([ps EXCEPT !.h = listAdd(ps.h, ps.list, <<field.val>>).h,
                                   !.val = << >>, !.inVal = FALSE])
    IN  IF IsSpace(char) THEN ps
        ELSE IF ~ps.inVal /\ char = "\"" THEN [ps EXCEPT !.state = stateValString]
        ELSE IF ~ps.inVal /\ char = "{"
             THEN nested("Object", parseObject(From(json, ps.i), ps.line, ps.h))
        ELSE IF ~ps.inVal /\ char = "["
             THEN nested("List", parseList(From(json, ps.i), ps.line, ps.h))
        ELSE IF char \in {",", "]"}
             THEN IF Len(ps.val) > 0 THEN added(parseField(ps.val, ps.line)) ELSE closed(ps)
        ELSE [ps EXCEPT !.val = Append(@, char), !.inVal = TRUE]

\* parseList, case stateValString.
listValString(ps, char) ==
    IF char = "\\" THEN [ps EXCEPT !.state = stateValEscape]
    ELSE IF char = "\""
         THEN [ps EXCEPT !.h = listAdd(ps.h, ps.list, <<<<"string", unquoted(ps.val)>>>>).h,
                         !.val = << >>, !.state = stateValAfterString]
    ELSE [ps EXCEPT !.val = Append(@, char)]

\* parseList and parseObject, case stateValEscape.
valEscape(ps, char) == [ps EXCEPT !.val = @ \o <<"\\", char>>, !.state = stateValString]

\* parseList, case stateValAfterString.
listValAfterString(ps, char) ==
    IF char = "," THEN [ps EXCEPT !.state = stateVal]
    ELSE IF char = "]" THEN [ps EXCEPT !.ret = "ok"]
    ELSE ps

\* The switch of parseList over the state.
listSwitch(json, ps, char) ==
    LET started(n) == [ps EXCEPT !.h = n.h, !.list = n.ego, !.state = stateVal, !.inVal = FALSE]
    IN  CASE ps.state = stateStart -> started(NewList(ps.h, << >>))
          [] ps.state = stateVal -> listVal(json, ps, char)
          [] ps.state = stateValString -> listValString(ps, char)
          [] ps.state = stateValEscape -> valEscape(ps, char)
          [] ps.state = stateValAfterString -> listValAfterString(ps, char)

\* A variant of the test of the decoded rune that finds no rune in error.
runeErrorNever(char) == FALSE

\* size == 0 || char == utf8.RuneError, for the rune decoded at i.
runeError(char) == char = BadByte

\* A variant of the return of a parse that hands back the container built
\* so far when the input has ended.
parseResultPartial(ps, container) ==
    [val |-> IF ps.ret \in {"ok", "end"} THEN container ELSE 0,
     pos |-> IF ps.ret \in {"ok", "end"} THEN ps.i ELSE 0,
     err |-> IF ps.ret \in {"ok", "end"} THEN "" ELSE ps.ret,
     errLine |-> IF ps.ret \in {"ok", "end"} THEN 0 ELSE ps.errLine,
     line |-> ps.line,
     h |-> ps.h]

\* The for loop of a parse: the rune at i is decoded, a line break counted,
\* the switch taken and i moved on, until a return or the end of json.
parseListLoop(json, ps) ==
    LET continue(next) ==
            IF next.ret # "" THEN next ELSE parseListLoop(json, [next EXCEPT !.i = @ + 1])
        step(char) ==
            IF runeError(char) THEN [ps EXCEPT !.ret = "encoding"]
            ELSE continue(listSwitch(json, IF char = "\n" THEN [ps EXCEPT !.line = @ + 1] ELSE ps,
                                     char))
    IN  IF ps.i >= Len(json) THEN [ps EXCEPT !.ret = "end"]
        ELSE step(json[ps.i + 1])

\* What a parse returns: the container (0 for nil), the offset of its
\* closing rune, the error, and the line counter and heap as it leaves
\* them.
parseResult(ps, container) ==
    [val |-> IF ps.ret = "ok" THEN container ELSE 0,
     pos |-> IF ps.ret = "ok" THEN ps.i ELSE 0,
     err |-> IF ps.ret = "ok" THEN "" ELSE ps.ret,
     errLine |-> IF ps.ret = "ok" THEN 0 ELSE ps.errLine,
     line |-> ps.line,
     h |-> ps.h]

\* parseList(json, line)
parseList(json, line, h) ==
    LET returned(ps) == parseResult(ps, ps.list)
    IN  returned(parseListLoop(json, [state |-> stateStart, i |-> 0, list |-> 0, val |-> << >>,
                                      inVal |-> FALSE, line |-> line, h |-> h,
                                      ret |-> "", errLine |-> 0]))


\* object.Set(key.String(), value) as the parser calls it.
parserSet(ps, value) ==
    [ps EXCEPT !.h = objectSet(ps.h, ps.object, <<<<"string", ps.key>>, value>>).h]

\* parseObject, case stateKeyStart.
objectKeyStart(ps, char) ==
    IF IsSpace(char) THEN ps
    ELSE IF char = "}" THEN [ps EXCEPT !.ret = "ok"]
    ELSE IF char = "\"" THEN [ps EXCEPT !.key = << >>, !.state = stateKey]
    ELSE [ps EXCEPT !.ret = "token", !.errLine = ps.line]

\* parseObject, case stateKey.
objectKey(ps, char) ==
    IF char = "\"" THEN [ps EXCEPT !.state = stateAfterKey]
    ELSE IF char = "\\" THEN [ps EXCEPT !.state = stateKeyEscape]
    ELSE [ps EXCEPT !.key = Append(@, char)]

\* parseObject, case stateKeyEscape.
objectKeyEscape(ps, char) == [ps EXCEPT !.key = @ \o <<"\\", char>>, !.state = stateKey]

\* parseObject, case stateAfterKey.
objectAfterKey(ps, char) ==
    IF IsSpace(char) THEN ps
    ELSE IF char # ":" THEN [ps EXCEPT !.ret = "token", !.errLine = ps.line]
    ELSE [ps EXCEPT !.key = unquoted(ps.key), !.val = << >>, !.state = stateVal, !.inVal = FALSE]

\* parseObject, case stateVal.
objectVal(json, ps, char) ==
    LET nested(type, r) ==
            afterNested(ps, r, [parserSet([ps EXCEPT !.h = r.h], <<type, r.val>>)
                                  EXCEPT !.state = stateAfterVal])
        closed(s) ==
            IF char = "," THEN [s EXCEPT !.state = stateKeyStart] ELSE [s EXCEPT !.ret = "ok"]
        set(field) ==
            IF ~field.ok THEN [ps EXCEPT !.ret = "value", !.errLine = field.errLine]
            ELSE closed(parserSet(ps, field.val))
    IN  IF IsSpace(char) THEN ps
        ELSE IF ~ps.inVal /\ char = "\"" THEN [ps EXCEPT !.state = stateValString]
        ELSE IF ~ps.inVal /\ char = "{"
             THEN nested("Object", parseObject(From(json, ps.i), ps.line, ps.h))
        ELSE IF ~ps.inVal /\ char = "["
             THEN nested("List", parseList(From(json, ps.i), ps.line, ps.h))
        ELSE IF char \in {",", "}"}
             THEN IF Len(ps.val) > 0 THEN set(parseField(ps.val, ps.line)) ELSE closed(ps)
        ELSE [ps EXCEPT !.val = Append(@, char), !.inVal = TRUE]

\* A variant of case stateAfterVal without the case of the quote: the next
\* pair needs its comma.
objectAfterValNoQuote(ps, char) ==
    IF IsSpace(char) THEN ps
    ELSE IF char = "," THEN [ps EXCEPT !.state = stateKeyStart]
    ELSE IF char = "}" THEN [ps EXCEPT !.ret = "ok"]
    ELSE [ps EXCEPT !.ret = "token", !.errLine = ps.line]

\* A variant of case stateAfterVal without the default case: any other rune
\* starts a bare value for the same key, as in stateVal.
objectAfterValNoDefault(ps, char) ==
    IF IsSpace(char) THEN ps
    ELSE IF char = "," THEN [ps EXCEPT !.state = stateKeyStart]
    ELSE IF char = "}" THEN [ps EXCEPT !.ret = "ok"]
    ELSE IF char = "\"" THEN [ps EXCEPT !.key = << >>, !.state = stateKey]
    ELSE [ps EXCEPT !.val = <<char>>, !.inVal = TRUE, !.state = stateVal]

\* parseObject, case stateAfterVal: behind a closed nested object or list.
objectAfterVal(ps, char) ==
    IF IsSpace(char) THEN ps
    ELSE IF char = "," THEN [ps EXCEPT !.state = stateKeyStart]
    ELSE IF char = "}" THEN [ps EXCEPT !.ret = "ok"]
    ELSE IF char = "\"" THEN [ps EXCEPT !.key = << >>, !.state = stateKey]
    ELSE [ps EXCEPT !.ret = "token", !.errLine = ps.line]

\* parseObject, case stateValString.
objectValString(ps, char) ==
    IF char = "\\" THEN [ps EXCEPT !.state = stateValEscape]
    ELSE IF char = "\""
         THEN [parserSet(ps, <<"string", unquoted(ps.val)>>) EXCEPT !.state = stateValAfterString]
    ELSE [ps EXCEPT !.val = Append(@, char)]

\* parseObject, case stateValAfterString.
objectValAfterString(ps, char) ==
    IF char = "," THEN [ps EXCEPT !.state = stateKeyStart]
    ELSE IF char = "}" THEN [ps EXCEPT !.ret = "ok"]
    ELSE ps

\* The switch of parseObject over the state.
objectSwitch(json, ps, char) ==
    LET started(n) == [ps EXCEPT !.h = n.h, !.object = n.ego, !.state = stateKeyStart]
    IN  CASE ps.state = stateStart -> started(NewObject(ps.h, << >>))
          [] ps.state = stateKeyStart -> objectKeyStart(ps, char)
          [] ps.state = stateKey -> objectKey(ps, char)
          [] ps.state = stateKeyEscape -> objectKeyEscape(ps, char)
          [] ps.state = stateAfterKey -> objectAfterKey(ps, char)
          [] ps.state = stateVal -> objectVal(json, ps, char)
          [] ps.state = stateAfterVal -> objectAfterVal(ps, char)
          [] ps.state = stateValString -> objectValString(ps, char)
          [] ps.state = stateValEscape -> valEscape(ps, char)
          [] ps.state = stateValAfterString -> objectValAfterString(ps, char)

\* The for loop of parseObject.
parseObjectLoop(json, ps) ==
    LET continue(next) ==
            IF next.ret # "" THEN next ELSE parseObjectLoop(json, [next EXCEPT !.i = @ + 1])
        step(char) ==
            IF runeError(char) THEN [ps EXCEPT !.ret = "encoding"]
            ELSE continue(objectSwitch(json, IF char = "\n" THEN [ps EXCEPT !.line = @ + 1] ELSE ps,
                                       char))
    IN  IF ps.i >= Len(json) THEN [ps EXCEPT !.ret = "end"]
        ELSE step(json[ps.i + 1])

\* parseObject(json, line)
parseObject(json, line, h) ==
    LET returned(ps) == parseResult(ps, ps.object)
    IN  returned(parseObjectLoop(json, [state |-> stateStart, i |-> 0, object |-> 0, key |-> << >>,
                                        val |-> << >>, inVal |-> FALSE, line |-> line, h |-> h,
                                        ret |-> "", errLine |-> 0]))

\* strings.Count(json[:start], "\n") + 1
startLine(json, start) == Cardinality({k \in 1..start : json[k] = "\n"}) + 1

\* ParseList(json): the list, or the error ("missing" when json holds no
\* opening bracket).
ParseList(json, h) ==
    LET from(start) ==
            IF start < 0
            THEN [val |-> 0, pos |-> 0, err |-> "missing", errLine |-> 0, line |-> 0, h |-> h]
            ELSE parseList(From(json, start), startLine(json, start), h)
    IN  from(Index(json, "["))

\* ParseObject(json)
ParseObject(json, h) ==
    LET from(start) ==
            IF start < 0
            THEN [val |-> 0, pos |-> 0, err |-> "missing", errLine |-> 0, line |-> 0, h |-> h]
            ELSE parseObject(From(json, start), startLine(json, start), h)
    IN  from(Index(json, "{"))

RECURSIVE sortInts(_)
\* sort.Ints: the ints in ascending order.
sortInts(s) ==
    LET least(m) == <<m>> \o sortInts(SelectSeq(s, LAMBDA x : x # m)
                                        \o Tail(SelectSeq(s, LAMBDA x : x = m)))
    IN  IF s = << >> THEN << >>
        ELSE least(CHOOSE m \in {s[i] : i \in 1..Len(s)} : \A i \in 1..Len(s) : m <= s[i])

RECURSIVE listDeleteLoop(_, _, _, _)
\* The loop of list.Delete, from the last index of the sorted indexes down:
\* a panic leaves the list as the earlier rounds made it.
listDeleteLoop(h, ego, indexes, i) ==
    IF i < 1 THEN [h |-> h, panic |-> FALSE]
    ELSE IF indexes[i] < 0 \/ indexes[i] >= listCount(h, ego) THEN [h |-> h, panic |-> TRUE]
    ELSE listDeleteLoop([h EXCEPT ![ego] = Upto(@, indexes[i]) \o From(@, indexes[i] + 1)],
                        ego, indexes, i - 1)

\* list.Delete(indexes...)
listDelete(h, ego, indexes) ==
    listDeleteLoop(h, ego, IF Len(indexes) > 1 THEN sortInts(indexes) ELSE indexes, Len(indexes))


(***************************************************************************)
(* The tree form: a path of segments, ".key" into an object and "#index"   *)
(* into a list.  A call yields the heap as it leaves it, also when it      *)
(* panics part of the way.                                                 *)
(***************************************************************************)
RECURSIVE listGetTF(_, _, _)
RECURSIVE objectGetTF(_, _, _)
RECURSIVE listSetTF(_, _, _, _)
RECURSIVE objectSetTF(_, _, _, _)
RECURSIVE listUnsetTF(_, _, _)
RECURSIVE objectUnsetTF(_, _, _)
RECURSIVE listTypeOfTF(_, _, _)
RECURSIVE objectTypeOfTF(_, _, _)

\* dot > 0 && (hash < 0 || dot < hash)
dotFirst(tf) ==
    Index(tf, ".") > 0 /\ (Index(tf, "#") < 0 \/ Index(tf, ".") < Index(tf, "#"))

\* hash > 0 && (dot < 0 || hash < dot)
hashFirst(tf) ==
    Index(tf, "#") > 0 /\ (Index(tf, ".") < 0 \/ Index(tf, "#") < Index(tf, "."))

Panicked == [panic |-> TRUE, val |-> <<"nil", 0>>]

\* list.GetTF(tf)
listGetTF(h, ego, tf) ==
    LET object(o, rest) == IF o.panic THEN Panicked ELSE objectGetTF(h, o.val[2], rest)
        list(l, rest) == IF l.panic THEN Panicked ELSE listGetTF(h, l.val[2], rest)
        segment(rest, cut, integer) ==
            IF ~integer.ok THEN Panicked
            ELSE IF cut < 0 THEN listGet(h, ego, integer.val)
            ELSE IF rest[cut + 1] = "."
                 THEN object(listGetObject(h, ego, integer.val), From(rest, cut))
            ELSE list(listGetList(h, ego, integer.val), From(rest, cut))
        split(rest, cut) == segment(rest, cut, ParseInt(IF cut < 0 THEN rest ELSE Upto(rest, cut)))
        resolve(rest) ==
            split(rest, IF dotFirst(rest) THEN Index(rest, ".")
                        ELSE IF hashFirst(rest) THEN Index(rest, "#") ELSE -1)
    IN  IF Len(tf) < 2 \/ tf[1] # "#" THEN Panicked ELSE resolve(From(tf, 1))

\* object.GetTF(tf): nil for a key that is missing or holds another type.
objectGetTF(h, ego, tf) ==
    LET null == [panic |-> FALSE, val |-> <<"nil", 0>>]
        segment(rest, cut, key) ==
            IF ~objectKeyExists(h, ego, key) THEN null
            ELSE IF cut < 0 THEN objectGet(h, ego, key)
            ELSE IF rest[cut + 1] = "."
                 THEN IF objectTypeOf(h, ego, key) # TypeObject THEN null
                      ELSE objectGetTF(h, objectGetObject(h, ego, key).val[2], From(rest, cut))
            ELSE IF objectTypeOf(h, ego, key) # TypeList THEN null
                 ELSE listGetTF(h, objectGetList(h, ego, key).val[2], From(rest, cut))
        split(rest, cut) == segment(rest, cut, IF cut < 0 THEN rest ELSE Upto(rest, cut))
        resolve(rest) ==
            split(rest, IF dotFirst(rest) THEN Index(rest, ".")
                        ELSE IF hashFirst(rest) THEN Index(rest, "#") ELSE -1)
    IN  IF Len(tf) < 2 \/ tf[1] # "." THEN Panicked ELSE resolve(From(tf, 1))

\* NewObject() or NewList(), by the type asked for.
newContainer(h, type) ==
    IF type = TypeObject THEN NewObject(h, << >>) ELSE NewList(h, << >>)

\* The native value of the container at an address.
containerVal(type, ego) == <<IF type = TypeObject THEN "Object" ELSE "List", ego>>

\* list.SetTF, the container the next segment is resolved in: a new one
\* added at index == Count(), the one at the index when it has the type,
\* else a new one put there by Replace (which panics past the end).
listSetTFInner(h, ego, index, type) ==
    LET added(n) ==
            [h |-> listAdd(n.h, ego, <<containerVal(type, n.ego)>>).h, panic |-> FALSE,
             inner |-> n.ego]
        replaced(n, r) == [h |-> r.h, panic |-> r.panic, inner |-> n.ego]
        replace(n) == replaced(n, listReplace(n.h, ego, index, containerVal(type, n.ego)))
    IN  IF index = listCount(h, ego) THEN added(newContainer(h, type))
        ELSE IF listTypeOf(h, ego, index) = type
        THEN [h |-> h, panic |-> FALSE, inner |-> h[ego][index + 1][2]]
        ELSE replace(newContainer(h, type))

\* list.SetTF(tf, value)
listSetTF(h, ego, tf, value) ==
    LET descend(in, rest) ==
            IF in.panic THEN [h |-> in.h, panic |-> TRUE]
            ELSE IF rest[1] = "." THEN objectSetTF(in.h, in.inner, rest, value)
            ELSE listSetTF(in.h, in.inner, rest, value)
        segment(rest, cut, integer) ==
            IF ~integer.ok THEN [h |-> h, panic |-> TRUE]
            ELSE IF cut < 0
                 THEN IF integer.val = listCount(h, ego) THEN listAdd(h, ego, <<value>>)
                      ELSE listReplace(h, ego, integer.val, value)
            ELSE descend(listSetTFInner(h, ego, integer.val,
                                        IF rest[cut + 1] = "." THEN TypeObject ELSE TypeList),
                         From(rest, cut))
        split(rest, cut) == segment(rest, cut, ParseInt(IF cut < 0 THEN rest ELSE Upto(rest, cut)))
        resolve(rest) ==
            split(rest, IF dotFirst(rest) THEN Index(rest, ".")
                        ELSE IF hashFirst(rest) THEN Index(rest, "#") ELSE -1)
    IN  IF Len(tf) < 2 \/ tf[1] # "#" THEN [h |-> h, panic |-> TRUE] ELSE resolve(From(tf, 1))

\* object.SetTF, the container the next segment is resolved in: the one
\* GetObject or GetList hands back when the key exists (a panic when the
\* field has another type), else a new one set under the key.
objectSetTFInner(h, ego, key, type) ==
    LET got(g) == [h |-> h, panic |-> g.panic, inner |-> g.val[2]]
        set(n) ==
            [h |-> objectSet(n.h, ego, <<<<"string", key>>, containerVal(type, n.ego)>>).h,
             panic |-> FALSE, inner |-> n.ego]
    IN  IF ~objectKeyExists(h, ego, key) THEN set(newContainer(h, type))
        ELSE IF type = TypeObject THEN got(objectGetObject(h, ego, key))
        ELSE got(objectGetList(h, ego, key))

\* object.SetTF(tf, value)
objectSetTF(h, ego, tf, value) ==
    LET descend(in, rest) ==
            IF in.panic THEN [h |-> in.h, panic |-> TRUE]
            ELSE IF rest[1] = "." THEN objectSetTF(in.h, in.inner, rest, value)
            ELSE listSetTF(in.h, in.inner, rest, value)
        split(rest, cut) ==
            IF cut < 0 THEN objectSet(h, ego, <<<<"string", rest>>, value>>)
            ELSE descend(objectSetTFInner(h, ego, Upto(rest, cut),
                                          IF rest[cut + 1] = "." THEN TypeObject ELSE TypeList),
                         From(rest, cut))
        resolve(rest) ==
            split(rest, IF dotFirst(rest) THEN Index(rest, ".")
                        ELSE IF hashFirst(rest) THEN Index(rest, "#") ELSE -1)
    IN  IF Len(tf) < 2 \/ tf[1] # "." THEN [h |-> h, panic |-> TRUE] ELSE resolve(From(tf, 1))

\* list.UnsetTF(tf): GetObject or GetList hands back the container the
\* next segment is resolved in, Delete removes the element of the last.
listUnsetTF(h, ego, tf) ==
    LET object(o, rest) ==
            IF o.panic THEN [h |-> h, panic |-> TRUE] ELSE objectUnsetTF(h, o.val[2], rest)
        list(l, rest) ==
            IF l.panic THEN [h |-> h, panic |-> TRUE] ELSE listUnsetTF(h, l.val[2], rest)
        segment(rest, cut, integer) ==
            IF ~integer.ok THEN [h |-> h, panic |-> TRUE]
            ELSE IF cut < 0 THEN listDelete(h, ego, <<integer.val>>)
            ELSE IF rest[cut + 1] = "."
                 THEN object(listGetObject(h, ego, integer.val), From(rest, cut))
            ELSE list(listGetList(h, ego, integer.val), From(rest, cut))
        split(rest, cut) == segment(rest, cut, ParseInt(IF cut < 0 THEN rest ELSE Upto(rest, cut)))
        resolve(rest) ==
            split(rest, IF dotFirst(rest) THEN Index(rest, ".")
                        ELSE IF hashFirst(rest) THEN Index(rest, "#") ELSE -1)
    IN  IF Len(tf) < 2 \/ tf[1] # "#" THEN [h |-> h, panic |-> TRUE] ELSE resolve(From(tf, 1))

\* object.UnsetTF(tf): the traversal of object.GetTF, ending in the
\* deletion of the key; nothing happens when the path does not exist.
objectUnsetTF(h, ego, tf) ==
    LET nothing == [h |-> h, panic |-> FALSE]
        segment(rest, cut, key) ==
            IF ~objectKeyExists(h, ego, key) THEN nothing
            ELSE IF cut < 0 THEN objectUnset(h, ego, <<key>>)
            ELSE IF rest[cut + 1] = "."
                 THEN IF objectTypeOf(h, ego, key) # TypeObject THEN nothing
                      ELSE objectUnsetTF(h, objectGetObject(h, ego, key).val[2], From(rest, cut))
            ELSE IF objectTypeOf(h, ego, key) # TypeList THEN nothing
                 ELSE listUnsetTF(h, objectGetList(h, ego, key).val[2], From(rest, cut))
        split(rest, cut) == segment(rest, cut, IF cut < 0 THEN rest ELSE Upto(rest, cut))
        resolve(rest) ==
            split(rest, IF dotFirst(rest) THEN Index(rest, ".")
                        ELSE IF hashFirst(rest) THEN Index(rest, "#") ELSE -1)
    IN  IF Len(tf) < 2 \/ tf[1] # "." THEN [h |-> h, panic |-> TRUE] ELSE resolve(From(tf, 1))

\* A variant of list.TypeOfTF without the test of the type at the index.
listTypeOfTFNoTest(h, ego, tf) ==
    LET object(o, rest) ==
            IF o.panic THEN [panic |-> TRUE, val |-> TypeUndefined]
            ELSE objectTypeOfTF(h, o.val[2], rest)
        list(l, rest) ==
            IF l.panic THEN [panic |-> TRUE, val |-> TypeUndefined]
            ELSE listTypeOfTF(h, l.val[2], rest)
        segment(rest, cut, integer) ==
            IF ~integer.ok THEN [panic |-> FALSE, val |-> TypeUndefined]
            ELSE IF cut < 0 THEN [panic |-> FALSE, val |-> listTypeOf(h, ego, integer.val)]
            ELSE IF rest[cut + 1] = "."
                 THEN object(listGetObject(h, ego, integer.val), From(rest, cut))
            ELSE list(listGetList(h, ego, integer.val), From(rest, cut))
        split(rest, cut) == segment(rest, cut, ParseInt(IF cut < 0 THEN rest ELSE Upto(rest, cut)))
        resolve(rest) ==
            split(rest, IF dotFirst(rest) THEN Index(rest, ".")
                        ELSE IF hashFirst(rest) THEN Index(rest, "#") ELSE -1)
    IN  IF Len(tf) < 2 \/ tf[1] # "#" THEN [panic |-> FALSE, val |-> TypeUndefined]
        ELSE resolve(From(tf, 1))

\* list.TypeOfTF(tf): TypeUndefined for a tree form that is not one of a
\* list, an index that is no integer, and an element that has not the type
\* the next segment needs.
listTypeOfTF(h, ego, tf) ==
    LET undefined == [panic |-> FALSE, val |-> TypeUndefined]
        object(o, rest) ==
            IF o.panic THEN [panic |-> TRUE, val |-> TypeUndefined]
            ELSE objectTypeOfTF(h, o.val[2], rest)
        list(l, rest) ==
            IF l.panic THEN [panic |-> TRUE, val |-> TypeUndefined]
            ELSE listTypeOfTF(h, l.val[2], rest)
        segment(rest, cut, integer) ==
            IF ~integer.ok THEN undefined
            ELSE IF cut < 0 THEN [panic |-> FALSE, val |-> listTypeOf(h, ego, integer.val)]
            ELSE IF rest[cut + 1] = "."
                 THEN IF listTypeOf(h, ego, integer.val) # TypeObject THEN undefined
                      ELSE object(listGetObject(h, ego, integer.val), From(rest, cut))
            ELSE IF listTypeOf(h, ego, integer.val) # TypeList THEN undefined
                 ELSE list(listGetList(h, ego, integer.val), From(rest, cut))
        split(rest, cut) == segment(rest, cut, ParseInt(IF cut < 0 THEN rest ELSE Upto(rest, cut)))
        resolve(rest) ==
            split(rest, IF dotFirst(rest) THEN Index(rest, ".")
                        ELSE IF hashFirst(rest) THEN Index(rest, "#") ELSE -1)
    IN  IF Len(tf) < 2 \/ tf[1] # "#" THEN undefined ELSE resolve(From(tf, 1))

\* object.TypeOfTF(tf): the traversal of object.GetTF, ending in TypeOf;
\* TypeUndefined when the path does not exist.
objectTypeOfTF(h, ego, tf) ==
    LET undefined == [panic |-> FALSE, val |-> TypeUndefined]
        segment(rest, cut, key) ==
            IF ~objectKeyExists(h, ego, key) THEN undefined
            ELSE IF cut < 0 THEN [panic |-> FALSE, val |-> objectTypeOf(h, ego, key)]
            ELSE IF rest[cut + 1] = "."
                 THEN IF objectTypeOf(h, ego, key) # TypeObject THEN undefined
                      ELSE objectTypeOfTF(h, objectGetObject(h, ego, key).val[2], From(rest, cut))
            ELSE IF objectTypeOf(h, ego, key) # TypeList THEN undefined
                 ELSE listTypeOfTF(h, objectGetList(h, ego, key).val[2], From(rest, cut))
        split(rest, cut) == segment(rest, cut, IF cut < 0 THEN rest ELSE Upto(rest, cut))
        resolve(rest) ==
            split(rest, IF dotFirst(rest) THEN Index(rest, ".")
                        ELSE IF hashFirst(rest) THEN Index(rest, "#") ELSE -1)
    IN  IF Len(tf) < 2 \/ tf[1] # "." THEN undefined ELSE resolve(From(tf, 1))


(***************************************************************************)
(* Constructor calls.  An expression is <<"atom", native value>>,          *)
(* <<"List", arguments>> or <<"Object", arguments>> (keys and values in    *)
(* turn).  Go evaluates the arguments from left to right before the call,  *)
(* so a nested container is on the heap before the one holding it.         *)
(***************************************************************************)
RECURSIVE Build(_, _)
RECURSIVE BuildArgs(_, _)

\* The arguments of a call, evaluated in turn.
BuildArgs(h, exprs) ==
    LET both(first, rest) ==
            [h |-> rest.h, panic |-> rest.panic, vals |-> <<first.val>> \o rest.vals]
        then(first) ==
            IF first.panic THEN [h |-> first.h, panic |-> TRUE, vals |-> << >>]
            ELSE both(first, BuildArgs(first.h, Tail(exprs)))
    IN  IF exprs = << >> THEN [h |-> h, panic |-> FALSE, vals |-> << >>]
        ELSE then(Build(h, Head(exprs)))

\* List(values...) and Object(values...), the constructors of anytype.go.
Build(h, expr) ==
    LET result(made) == [h |-> made.h, panic |-> made.panic, val |-> <<expr[1], made.ego>>]
        call(args) ==
            IF args.panic THEN [h |-> args.h, panic |-> TRUE, val |-> <<"nil", 0>>]
            ELSE IF expr[1] = "List" THEN result(NewList(args.h, args.vals))
            ELSE result(NewObject(args.h, args.vals))
    IN  IF expr[1] = "atom" THEN [h |-> h, panic |-> FALSE, val |-> expr[2]]
        ELSE call(BuildArgs(h, expr[2]))

Atom(type, value) == <<"atom", <<type, value>>>>
Key(runes) == Atom("string", runes)

\* The field of a native value that is known to convert.
FieldOf(val) == parseVal(val).f


(***************************************************************************)
(* The inputs of the model.  Floats are finite: 1 (integral), 1.5 and      *)
(* 1.6e-08 (exponent notation).                                            *)
(***************************************************************************)
Float(m, e) == Atom("float64", <<"num", m, e>>)

\* The atoms of the seven variants.
Atoms ==
    {Atom("nil", 0), Atom("string", <<"a">>), Atom("string", <<"\"", "\\">>),
     Atom("bool", TRUE), Atom("int", 1), Float(15, -1), Float(16, -9), Float(1, 0)}

\* The values a container of the model holds: the atoms and containers of
\* one more level.
Elems ==
    Atoms \cup {<<"List", << >>>>, <<"Object", << >>>>,
                <<"List", <<Atom("int", 1)>>>>,
                <<"Object", <<Key(<<"a">>), Atom("int", 1)>>>>}

\* The sequences over S of a length up to n.
SeqsUpTo(S, n) == UNION {[1..k -> S] : k \in 0..n}

KeyNames == <<<<"a">>, <<"b">>, <<"c">>, <<"d">>>>

\* Object(k1, v1, k2, v2, ...) over the first keys of KeyNames.
ObjectOf(elems) ==
    <<"Object", [j \in 1..(2 * Len(elems)) |->
                    IF j % 2 = 1 THEN Key(KeyNames[(j + 1) \div 2]) ELSE elems[j \div 2]]>>

\* The graphs handed to String(): List(...) and Object(...) of up to
\* MaxLen values.
Graphs ==
    {<<"List", elems>> : elems \in SeqsUpTo(Elems, MaxLen)}
        \cup {ObjectOf(elems) : elems \in SeqsUpTo(Elems, MaxLen)}


(***************************************************************************)
(* Parsing.  A run either builds a graph, takes its String() and parses    *)
(* the text back, or parses a text written by hand: two entries with       *)
(* white space between them, or an object whose nested value is followed   *)
(* by arbitrary runes.                                                     *)
(***************************************************************************)
NoValue == << >>

\* The entries written by hand, each with the value it stands for.
Entries ==
    {[text |-> <<"1">>, tree |-> newInt(1), nested |-> FALSE],
     [text |-> <<"\"", "s", "\"">>, tree |-> newString(<<"s">>), nested |-> FALSE],
     [text |-> <<"t", "r", "u", "e">>, tree |-> newBool(TRUE), nested |-> FALSE],
     [text |-> <<"n", "u", "l", "l">>, tree |-> newNil, nested |-> FALSE],
     [text |-> <<"[", "]">>, tree |-> <<TypeList, << >>>>, nested |-> TRUE],
     [text |-> <<"[", "2", "]">>, tree |-> <<TypeList, <<newInt(2)>>>>, nested |-> TRUE],
     [text |-> <<"{", "}">>, tree |-> <<TypeObject, << >>>>, nested |-> TRUE]}

\* White space standing where a comma belongs.
Separators == {<<" ">>, <<"\n", "\t">>}

\* The runes written behind a closed nested value.
TailRunes == {" ", ",", "}", "\"", "2", "x", ":"}

Tails == SeqsUpTo(TailRunes, MaxTail)

\* "a": and "b":, the keys of the two pairs written by hand.
KeyText(k) == Quote(KeyNames[k]) \o <<":">>

\* The two entries as a list or as an object of the keys a and b.
AdjacentText(container, first, sep, second) ==
    IF container = TypeList THEN <<"[">> \o first.text \o sep \o second.text \o <<"]">>
    ELSE <<"{">> \o KeyText(1) \o first.text \o sep \o KeyText(2) \o second.text \o <<"}">>

ParseInit ==
    /\ heap = << >>
    /\ pc = "start"
    /\ arg = NoValue
    /\ ret = NoValue
    /\ text = << >>
    /\ wg = 0
    /\ mutex = FALSE
    /\ workers = << >>
    /\ calls = << >>

\* G := List(...) or Object(...)
Construct ==
    LET built(made) ==
            /\ ~made.panic
            /\ heap' = made.h
            /\ arg' = [kind |-> "graph", type |-> FieldOf(made.val)[1], root |-> FieldOf(made.val)]
    IN  /\ pc = "start"
        /\ \E expr \in Graphs : built(Build(heap, expr))
        /\ pc' = "built"
        /\ UNCHANGED <<ret, text, wg, mutex, workers, calls>>

\* G.String(): serialize, an object's fields in the order the map yields.
String ==
    /\ pc = "built"
    /\ \E json \in Serializations(heap, arg.root) : text' = json
    /\ pc' = "text"
    /\ UNCHANGED <<heap, arg, ret, wg, mutex, workers, calls>>

\* A text of two entries with white space between them.
WriteAdjacent ==
    /\ pc = "start"
    /\ \E container \in {TypeList, TypeObject}, first \in Entries, second \in Entries,
          sep \in Separators :
        /\ text' = AdjacentText(container, first, sep, second)
        /\ arg' = [kind |-> "adjacent", type |-> container, first |-> first, second |-> second]
    /\ pc' = "text"
    /\ UNCHANGED <<heap, ret, wg, mutex, workers, calls>>

\* A text of an object whose nested value is followed by a tail of runes.
WriteAfterNested ==
    /\ pc = "start"
    /\ \E nested \in {e \in Entries : e.nested}, tail \in Tails :
        /\ text' = <<"{">> \o KeyText(1) \o nested.text \o tail
        /\ arg' = [kind |-> "afterNested", type |-> TypeObject, tail |-> tail]
    /\ pc' = "text"
    /\ UNCHANGED <<heap, ret, wg, mutex, workers, calls>>

\* ParseList(text) or ParseObject(text).
Parse ==
    LET returned(r) ==
            /\ heap' = r.h
            /\ ret' = [err |-> r.err, errLine |-> r.errLine, val |-> <<arg.type, r.val>>]
    IN  /\ pc = "text"
        /\ returned(IF arg.type = TypeList THEN ParseList(text, heap) ELSE ParseObject(text, heap))
        /\ pc' = "parsed"
        /\ UNCHANGED <<arg, text, wg, mutex, workers, calls>>

ParseNext == Construct \/ String \/ WriteAdjacent \/ WriteAfterNested \/ Parse

SpecParse == ParseInit /\ [][ParseNext]_vars

(***************************************************************************)
(* Properties of parsing.                                                  *)
(***************************************************************************)
\* The value the two entries written by hand stand for, as separate
\* entries in the order written.
BothEntries ==
    IF arg.type = TypeList THEN <<TypeList, <<arg.first.tree, arg.second.tree>>>>
    ELSE <<TypeObject, KeyNames[1] :> arg.first.tree @@ KeyNames[2] :> arg.second.tree>>

\* The runes of a tail that are no white space.
NonSpace(tail) == SelectSeq(tail, LAMBDA c : ~IsSpace(c))

\* C1 as stated: for every graph G of the seven variants, parsing the text
\* of G.String() with ParseList or ParseObject succeeds and returns a
\* container for which Equals(G) is true.
RoundTrip ==
    (pc = "parsed" /\ arg.kind = "graph")
        => (ret.err = "" /\ isEqual(heap, ret.val, arg.root))

\* C2 as stated: two adjacent pairs of an object, or two adjacent elements
\* of a list, with white space only between them parse without an error to
\* a container holding both as separate entries in the order written.
WhitespaceSeparates ==
    (pc = "parsed" /\ arg.kind = "adjacent")
        => (ret.err = "" /\ ToTree(heap, ret.val) = BothEntries)

\* C2 amended: when the first of the two entries is a nested object or
\* list, white space only between it and the next entry parses without an
\* error to a container holding both as separate entries in the order
\* written.
WhitespaceSeparatesAfterNested ==
    (pc = "parsed" /\ arg.kind = "adjacent" /\ arg.first.nested)
        => (ret.err = "" /\ ToTree(heap, ret.val) = BothEntries)

\* C2 reached: an object written as {"a":[] "b":1} has been parsed to its
\* two pairs.
WhitespaceSeparatedPairs ==
    /\ pc = "parsed" /\ arg.kind = "adjacent" /\ arg.type = TypeObject
    /\ arg.first.nested /\ ~arg.second.nested
    /\ ret.err = "" /\ objectCount(heap, ret.val[2]) = 2

\* C5: inside an object, behind a closed nested object or list, a first
\* rune that is no white space and none of , } " makes ParseObject return
\* an error.
AfterNestedRejects ==
    (/\ pc = "parsed" /\ arg.kind = "afterNested"
     /\ NonSpace(arg.tail) # << >>
     /\ Head(NonSpace(arg.tail)) \notin {",", "}", "\""})
        => ret.err # ""

\* C5 reached: {"a":[]2} has been parsed and rejected.
AfterNestedRejected ==
    /\ pc = "parsed" /\ arg.kind = "afterNested"
    /\ text = <<"{", "\"", "a", "\"", ":", "[", "]", "2", "}">>
    /\ ret.err = "token"

(***************************************************************************)
(* The tree form in use.  A run builds a container, calls SetTF with a     *)
(* path and a value and, when that returned, GetTF with the same path.  A  *)
(* panic ends the run.                                                     *)
(***************************************************************************)
\* The containers SetTF is called on.
Roots ==
    {<<"List", << >>>>,
     <<"List", <<Atom("int", 1)>>>>,
     <<"List", <<<<"List", <<Atom("int", 1)>>>>>>>>,
     <<"List", <<<<"Object", <<Key(<<"a">>), Atom("int", 1)>>>>>>>>,
     <<"Object", << >>>>,
     <<"Object", <<Key(<<"a">>), Atom("int", 1)>>>>,
     <<"Object", <<Key(<<"a">>), <<"List", <<Atom("int", 1)>>>>>>>>,
     <<"Object", <<Key(<<"a">>), <<"Object", <<Key(<<"b">>), Atom("int", 1)>>>>>>>>}

\* The segments of a path: a key or an index.
Segments == {<<".", "a">>, <<".", "b">>, <<"#", "0">>, <<"#", "1">>}

\* The paths: up to MaxPath segments.
Paths == SeqsUpTo(Segments, MaxPath) \ {<< >>}

\* The values written.
Written == {<<"int", 2>>, <<"string", <<"s">>>>}

\* The type of the slot a segment names in the container root, Undefined
\* when there is none.
SlotType(h, root, segment) ==
    IF root[1] = TypeList THEN listTypeOf(h, root[2], ParseInt(Tail(segment)).val)
    ELSE objectTypeOf(h, root[2], Tail(segment))

\* The type the segment behind a slot asks of it.
Required(segment) == IF segment[1] = "." THEN TypeObject ELSE TypeList

TFInit ==
    /\ heap = << >>
    /\ pc = "start"
    /\ arg = NoValue
    /\ ret = NoValue
    /\ text = << >>
    /\ wg = 0
    /\ mutex = FALSE
    /\ workers = << >>
    /\ calls = << >>

\* root := List(...) or Object(...)
TFConstruct ==
    LET built(made) ==
            /\ heap' = made.h
            /\ arg' = [root |-> FieldOf(made.val)]
    IN  /\ pc = "start"
        /\ \E expr \in Roots : built(Build(heap, expr))
        /\ pc' = "built"
        /\ UNCHANGED <<ret, text, wg, mutex, workers, calls>>

\* root.SetTF(tf, value), tf a path that starts with a segment of the
\* root's kind.
SetTF ==
    LET returned(r) ==
            /\ heap' = r.h
            /\ pc' = IF r.panic THEN "panicked" ELSE "set"
        call(path, value) ==
            /\ arg' = [root |-> arg.root, path |-> path, value |-> value,
                       before |-> SlotType(heap, arg.root, path[1]),
                       count |-> Cardinality(DOMAIN heap[arg.root[2]])]
            /\ text' = Concat(path)
            /\ returned(IF arg.root[1] = TypeList
                        THEN listSetTF(heap, arg.root[2], Concat(path), value)
                        ELSE objectSetTF(heap, arg.root[2], Concat(path), value))
    IN  /\ pc = "built"
        /\ \E path \in Paths, value \in Written :
            /\ path[1][1] = (IF arg.root[1] = TypeList THEN "#" ELSE ".")
            /\ call(path, value)
        /\ UNCHANGED <<ret, wg, mutex, workers, calls>>

\* root.GetTF(tf)
GetTF ==
    /\ pc = "set"
    /\ ret' = IF arg.root[1] = TypeList THEN listGetTF(heap, arg.root[2], text)
              ELSE objectGetTF(heap, arg.root[2], text)
    /\ pc' = "got"
    /\ UNCHANGED <<heap, arg, text, wg, mutex, workers, calls>>

\* root.UnsetTF(tf), tf a path that starts with a segment of the root's
\* kind.
UnsetTF ==
    LET returned(r) ==
            /\ heap' = r.h
            /\ pc' = IF r.panic THEN "unset failed" ELSE "unset"
        call(path) ==
            /\ arg' = [root |-> arg.root, path |-> path, tree |-> ToTree(heap, arg.root)]
            /\ text' = Concat(path)
            /\ returned(IF arg.root[1] = TypeList
                        THEN listUnsetTF(heap, arg.root[2], Concat(path))
                        ELSE objectUnsetTF(heap, arg.root[2], Concat(path)))
    IN  /\ pc = "built"
        /\ \E path \in Paths :
            /\ path[1][1] = (IF arg.root[1] = TypeList THEN "#" ELSE ".")
            /\ call(path)
        /\ UNCHANGED <<ret, wg, mutex, workers, calls>>

\* Strings that are no path of segments.
Malformed ==
    {<< >>, <<"#">>, <<".">>, <<"x">>, <<"#", "x">>, <<"#", ".", "a">>, <<"#", "0", "#">>,
     <<"#", "x", "#", "0">>, <<"#", "x", ".", "a">>, <<".", "a", ".">>, <<".", "a", "#", "x">>}

\* root.TypeOfTF(tf), tf any path or a string that is none.
TypeOfTF ==
    LET call(path, tf) ==
            /\ arg' = [root |-> arg.root, path |-> path, tree |-> ToTree(heap, arg.root)]
            /\ text' = tf
            /\ ret' = IF arg.root[1] = TypeList THEN listTypeOfTF(heap, arg.root[2], tf)
                      ELSE objectTypeOfTF(heap, arg.root[2], tf)
    IN  /\ pc = "built"
        /\ \/ \E path \in Paths : call(path, Concat(path))
           \/ \E tf \in Malformed : call(<< >>, tf)
        /\ pc' = "typed"
        /\ UNCHANGED <<heap, wg, mutex, workers, calls>>

\* root.GetTF(p) and root.GetTF(q), each call on its own, p and q paths
\* that start with a segment of the root's kind.
GetTFTwice ==
    LET get(tf) ==
            IF arg.root[1] = TypeList THEN listGetTF(heap, arg.root[2], tf)
            ELSE objectGetTF(heap, arg.root[2], tf)
        call(p, q) ==
            /\ arg' = [root |-> arg.root, p |-> p, q |-> q, tree |-> ToTree(heap, arg.root)]
            /\ ret' = [p |-> get(Concat(p)), q |-> get(Concat(q))]
    IN  /\ pc = "built"
        /\ \E p \in Paths, q \in Paths :
            /\ p[1][1] = (IF arg.root[1] = TypeList THEN "#" ELSE ".")
            /\ q[1][1] = p[1][1]
            /\ call(p, q)
        /\ pc' = "resolved"
        /\ UNCHANGED <<heap, text, wg, mutex, workers, calls>>

TFNext == TFConstruct \/ SetTF \/ GetTF \/ UnsetTF \/ TypeOfTF \/ GetTFTwice

SpecTF == TFInit /\ [][TFNext]_vars

\* C3 as stated: for a well-formed path p and a value v, SetTF(p, v)
\* returns, creating the segments that are missing, and GetTF(p) then
\* returns v.
SetThenGet ==
    /\ pc # "panicked"
    /\ pc = "got" => (~ret.panic /\ ret.val = arg.value)

\* C4 as stated: when the slot of the first segment exists and holds a
\* value of another variant than the next segment asks for, SetTF does not
\* fail and leaves a container of the variant asked for in the slot, in a
\* list and in an object alike.  (The later segments name keys or the
\* index 0, the only index of a container just created.)
WrongVariantOverwritten ==
    (/\ pc \in {"set", "panicked"}
     /\ Len(arg.path) >= 2
     /\ arg.before \notin {TypeUndefined, Required(arg.path[2])}
     /\ \A k \in 2..Len(arg.path) : arg.path[k] # <<"#", "1">>)
        => (/\ pc = "set"
            /\ SlotType(heap, arg.root, arg.path[1]) = Required(arg.path[2]))

(***************************************************************************)
(* Values and equality.  A run builds two containers and calls Equals on   *)
(* them: two graphs, or List(x) of a native number x and the list of the   *)
(* same number as an int or a float64.                                     *)
(***************************************************************************)
\* The numbers a list is built of, by Go type: 1 and another value every
\* type holds exactly.
NumberTypes == IntegerTypes \cup {"float32", "float64"}

IsFloatType(type) == type \in {"float32", "float64"}

\* The values compared: an int and a float of the same magnitude, and
\* containers of them.
Compared ==
    {Atom("int", 1), Float(1, 0),
     <<"List", <<Atom("int", 1)>>>>,
     <<"Object", <<Key(<<"a">>), Atom("int", 1)>>>>,
     <<"Object", <<Key(<<"b">>), Atom("int", 1)>>>>}

ComparedLists == {<<"List", elems>> : elems \in SeqsUpTo(Compared, MaxLen)}

ComparedObjects == {ObjectOf(elems) : elems \in SeqsUpTo(Compared, MaxLen)}

RECURSIVE SameValue(_, _)
\* Two values are the same: the same variant and, for lists, the same
\* count and the same values index by index, for objects the same keys and
\* the same values key by key, for atoms equal values.
SameValue(x, y) ==
    /\ x[1] = y[1]
    /\ CASE x[1] = TypeList ->
                /\ Len(x[2]) = Len(y[2])
                /\ \A i \in 1..Len(x[2]) : SameValue(x[2][i], y[2][i])
         [] x[1] = TypeObject ->
                /\ DOMAIN x[2] = DOMAIN y[2]
                /\ \A k \in DOMAIN x[2] : SameValue(x[2][k], y[2][k])
         [] x[1] = TypeFloat -> FloatEq(x[2], y[2])
         [] x[1] = TypeNil -> TRUE
         [] OTHER -> x[2] = y[2]

ValuesInit ==
    /\ heap = << >>
    /\ pc = "start"
    /\ arg = NoValue
    /\ ret = NoValue
    /\ text = << >>
    /\ wg = 0
    /\ mutex = FALSE
    /\ workers = << >>
    /\ calls = << >>

\* a := List(...) or Object(...); b := one of the same kind
ConstructPair ==
    LET second(a, made) ==
            /\ heap' = made.h
            /\ arg' = [kind |-> "pair", a |-> FieldOf(a.val), b |-> FieldOf(made.val)]
        first(a, expr) == second(a, Build(a.h, expr))
    IN  /\ pc = "start"
        /\ \/ \E x \in ComparedLists, y \in ComparedLists : first(Build(heap, x), y)
           \/ \E x \in ComparedObjects, y \in ComparedObjects : first(Build(heap, x), y)
        /\ pc' = "built"
        /\ UNCHANGED <<ret, text, wg, mutex, workers, calls>>

\* a := List(x) for a number x of a native type; b := List of the same
\* number as an int or a float64.  A panic of the first call ends the run.
ConstructNumber ==
    LET second(type, a, made) ==
            /\ heap' = made.h
            /\ arg' = [kind |-> "number", type |-> type,
                       a |-> FieldOf(a.val), b |-> FieldOf(made.val)]
            /\ pc' = "built"
        first(type, a, canonical) ==
            IF a.panic
            THEN /\ heap' = a.h
                 /\ arg' = [kind |-> "number", type |-> type]
                 /\ pc' = "panicked"
            ELSE second(type, a, Build(a.h, <<"List", <<canonical>>>>))
    IN  /\ pc = "start"
        /\ \E type \in NumberTypes, n \in {1, 100} :
            first(type,
                  Build(heap, <<"List", <<IF IsFloatType(type) THEN Atom(type, Normalize(n, 0))
                                          ELSE Atom(type, n)>>>>),
                  IF IsFloatType(type) THEN Atom("float64", Normalize(n, 0)) ELSE Atom("int", n))
        /\ UNCHANGED <<ret, text, wg, mutex, workers, calls>>

\* a.Equals(b)
Equals ==
    /\ pc = "built"
    /\ ret' = isEqual(heap, arg.a, arg.b)
    /\ pc' = "compared"
    /\ UNCHANGED <<heap, arg, text, wg, mutex, workers, calls>>

\* a.Merge(b) of two objects
Merge ==
    LET merged(r) ==
            /\ heap' = r.h
            /\ ret' = [val |-> FieldOf(r.val), a |-> ToTree(heap, arg.a), b |-> ToTree(heap, arg.b)]
    IN  /\ pc = "built"
        /\ arg.kind = "pair"
        /\ arg.a[1] = TypeObject
        /\ merged(objectMerge(heap, arg.a[2], arg.b[2]))
        /\ pc' = "merged"
        /\ UNCHANGED <<arg, text, wg, mutex, workers, calls>>

ValuesNext == ConstructPair \/ ConstructNumber \/ Equals \/ Merge

SpecValues == ValuesInit /\ [][ValuesNext]_vars

\* C8: Equals is true exactly when the two containers have the same count
\* and their entries, index by index or key by key, have the same variant
\* and equal values, nested containers compared by value; so an Int never
\* equals a Float.
EqualsIsStructural ==
    (pc = "compared" /\ arg.kind = "pair")
        => (ret <=> SameValue(ToTree(heap, arg.a), ToTree(heap, arg.b)))

\* C8 reached: List(1) and List(1.0) have been compared and are not equal.
IntNotEqualFloat ==
    /\ pc = "compared" /\ arg.kind = "pair"
    /\ ToTree(heap, arg.a) = <<TypeList, <<newInt(1)>>>>
    /\ ToTree(heap, arg.b)[1] = TypeList
    /\ Len(ToTree(heap, arg.b)[2]) = 1
    /\ ToTree(heap, arg.b)[2][1][1] = TypeFloat
    /\ ~ret

\* C10 as stated: a list is built of a number of every native integer type
\* and of float32 without a panic, holds the Int or the Float of the same
\* value, and equals the list of that value as an int or a float64.
NumbersNormalized ==
    /\ pc # "panicked"
    /\ (pc = "compared" /\ arg.kind = "number")
        => (ret /\ heap[arg.a[2]] = heap[arg.b[2]])

(***************************************************************************)
(* Clone.  A run builds a container, clones it and mutates containers      *)
(* reachable from the clone.                                               *)
(***************************************************************************)
\* The number of mutations of a clone in one run.
MaxMutations == 2

\* The containers cloned: lists and objects holding atoms and containers
\* nested to the second level.
Cloned ==
    {<<"List", <<Atom("int", 1)>>>>,
     <<"List", <<Atom("int", 1), <<"List", <<Atom("int", 2)>>>>>>>>,
     <<"List", <<<<"Object", <<Key(<<"a">>), <<"List", <<Atom("int", 2)>>>>>>>>>>>>,
     <<"Object", <<Key(<<"a">>), Atom("int", 1)>>>>,
     <<"Object", <<Key(<<"a">>), <<"Object", <<Key(<<"b">>), Atom("int", 2)>>>>>>>>,
     <<"Object", <<Key(<<"a">>), <<"List", <<<<"List", <<Float(1, 0)>>>>>>>>>>>>}

RECURSIVE Reachable(_, _)
\* The containers reachable from a field, the field's own container
\* included.
Reachable(h, field) ==
    CASE field[1] = TypeList ->
            {field} \cup UNION {Reachable(h, h[field[2]][i]) : i \in 1..Len(h[field[2]])}
      [] field[1] = TypeObject ->
            {field} \cup UNION {Reachable(h, h[field[2]][k]) : k \in DOMAIN h[field[2]]}
      [] OTHER -> {}

CloneInit ==
    /\ heap = << >>
    /\ pc = "start"
    /\ arg = NoValue
    /\ ret = NoValue
    /\ text = << >>
    /\ wg = 0
    /\ mutex = FALSE
    /\ workers = << >>
    /\ calls = << >>

\* c := List(...) or Object(...)
CloneConstruct ==
    LET built(made) ==
            /\ heap' = made.h
            /\ arg' = [root |-> FieldOf(made.val), before |-> ToTree(made.h, FieldOf(made.val))]
    IN  /\ pc = "start"
        /\ \E expr \in Cloned : built(Build(heap, expr))
        /\ pc' = "built"
        /\ UNCHANGED <<ret, text, wg, mutex, workers, calls>>

\* d := c.Clone()
Clone ==
    LET cloned(made) ==
            /\ heap' = made.h
            /\ arg' = [root |-> arg.root, before |-> arg.before,
                       clone |-> FieldOf(made.val), mutations |-> 0]
    IN  /\ pc = "built"
        /\ cloned(IF arg.root[1] = TypeList THEN listClone(heap, arg.root[2])
                  ELSE objectClone(heap, arg.root[2]))
        /\ pc' = "cloned"
        /\ UNCHANGED <<ret, text, wg, mutex, workers, calls>>

\* A mutation of a container reached from d: Add, Replace or Set.
MutateClone ==
    LET done(target, h) ==
            /\ heap' = h
            /\ ret' = target
            /\ arg' = [arg EXCEPT !.mutations = @ + 1]
        added(target, made) == done(target, listAdd(made.h, target[2], <<made.val>>).h)
        replaced(target, made) == done(target, listReplace(made.h, target[2], 0, made.val).h)
        set(target, key, made) ==
            done(target, objectSet(made.h, target[2], <<<<"string", key>>, made.val>>).h)
    IN  /\ pc \in {"cloned", "mutated"}
        /\ arg.mutations < MaxMutations
        /\ \E target \in Reachable(heap, arg.clone),
              expr \in {Atom("int", 9), <<"List", <<Atom("int", 9)>>>>} :
            \/ /\ target[1] = TypeList
               /\ added(target, Build(heap, expr))
            \/ /\ target[1] = TypeList
               /\ listCount(heap, target[2]) > 0
               /\ replaced(target, Build(heap, expr))
            \/ /\ target[1] = TypeObject
               /\ \E key \in {<<"a">>, <<"z">>} : set(target, key, Build(heap, expr))
        /\ pc' = "mutated"
        /\ UNCHANGED <<text, wg, mutex, workers, calls>>

CloneNext == CloneConstruct \/ Clone \/ MutateClone

SpecClone == CloneInit /\ [][CloneNext]_vars

\* C9: the clone equals its original when it is made, and no mutation of
\* the clone at any depth changes the original.
CloneIsIndependent ==
    /\ pc = "cloned" => isEqual(heap, arg.clone, arg.root)
    /\ pc \in {"cloned", "mutated"} => ToTree(heap, arg.root) = arg.before

\* C9 reached: a container nested in the clone has been mutated and the
\* clone no longer equals its original.
NestedCloneMutated ==
    /\ pc = "mutated"
    /\ ret # arg.clone
    /\ ~isEqual(heap, arg.clone, arg.root)

(***************************************************************************)
(* ForEachAsync and MapAsync.  The caller adds the count to a wait group,  *)
(* starts one goroutine per element and waits; the goroutines run in any   *)
(* interleaving.  calls is the log of the callback's invocations.          *)
(***************************************************************************)
\* The callbacks: pure functions of the index or the key and of the value.
listFunction(i, x) == <<"int", 10 * x[2] + i>>

objectFunction(k, x) == <<"string", k \o Itoa(x[2])>>

\* sync.WaitGroup: Add, Done, and the condition Wait returns on.
wgAdd(counter, delta) == counter + delta

wgDone(counter) == counter - 1

\* A variant of Wait that returns at once.
wgWaitNone(counter) == TRUE

wgWait(counter) == counter = 0

\* A variant of the step of list.MapAsync that appends the result.
listMapStepAdd(h, result, i, x) == listAdd(h, result, <<listFunction(i, x)>>).h

\* The step of list.MapAsync between Lock and Unlock:
\* result.Replace(i, function(i, x)).
listMapStep(h, result, i, x) == listReplace(h, result, i, listFunction(i, x)).h

\* The step of object.MapAsync between Lock and Unlock:
\* result.Set(k, function(k, x)).
objectMapStep(h, result, k, x) ==
    objectSet(h, result, <<<<"string", k>>, objectFunction(k, x)>>).h

\* The indices or the keys of a container.
Ids(h, field) ==
    IF field[1] = TypeList THEN 0..(listCount(h, field[2]) - 1) ELSE DOMAIN h[field[2]]

\* The element of a container at an index or a key.
Item(h, field, id) ==
    IF field[1] = TypeList THEN h[field[2]][id + 1] ELSE h[field[2]][id]

Count(h, field) ==
    IF field[1] = TypeList THEN listCount(h, field[2]) ELSE objectCount(h, field[2])

AsyncInit ==
    /\ heap = << >>
    /\ pc = "start"
    /\ arg = NoValue
    /\ ret = NoValue
    /\ text = << >>
    /\ wg = 0
    /\ mutex = FALSE
    /\ workers = << >>
    /\ calls = << >>

\* l := List(1, ..., n) or o := Object("a", 1, ...)
AsyncConstruct ==
    LET built(made) ==
            /\ heap' = made.h
            /\ arg' = [root |-> FieldOf(made.val), before |-> ToTree(made.h, FieldOf(made.val))]
    IN  /\ pc = "start"
        /\ \E n \in 0..MaxAsync :
            \/ built(Build(heap, <<"List", [i \in 1..n |-> Atom("int", i)]>>))
            \/ built(Build(heap, ObjectOf([i \in 1..n |-> Atom("int", i)])))
        /\ pc' = "built"
        /\ UNCHANGED <<ret, text, wg, mutex, workers, calls>>

\* ForEachAsync up to the loop: wg.Add(count)
ForEachAsync ==
    /\ pc = "built"
    /\ wg' = wgAdd(wg, Count(heap, arg.root))
    /\ arg' = [root |-> arg.root, before |-> arg.before, op |-> "ForEachAsync",
               result |-> arg.root]
    /\ pc' = "loop"
    /\ UNCHANGED <<heap, ret, text, mutex, workers, calls>>

\* MapAsync up to the loop: wg.Add(count); result := NewListOf(nil, count)
\* or NewObject()
MapAsync ==
    LET made(new, type) ==
            /\ heap' = new.h
            /\ arg' = [root |-> arg.root, before |-> arg.before, op |-> "MapAsync",
                       result |-> <<type, new.ego>>]
    IN  /\ pc = "built"
        /\ wg' = wgAdd(wg, Count(heap, arg.root))
        /\ IF arg.root[1] = TypeList
           THEN made(NewListOf(heap, <<"nil", 0>>, Count(heap, arg.root)), TypeList)
           ELSE made(NewObject(heap, << >>), TypeObject)
        /\ pc' = "loop"
        /\ UNCHANGED <<ret, text, mutex, workers, calls>>

\* One iteration of the loop: go step(&wg, i, item.getVal()).  A list is
\* ranged over in index order, a map in any order.
Go ==
    /\ pc = "loop"
    /\ \E id \in Ids(heap, arg.root) \ DOMAIN workers :
        /\ arg.root[1] = TypeList => id = Cardinality(DOMAIN workers)
        /\ workers' = (id :> [pc |-> "go", x |-> getVal(Item(heap, arg.root, id))]) @@ workers
    /\ UNCHANGED <<heap, pc, arg, ret, text, wg, mutex, calls>>

\* wg.Wait() after the loop, and the return.
Wait ==
    /\ pc = "loop"
    /\ DOMAIN workers = Ids(heap, arg.root)
    /\ wgWait(wg)
    /\ ret' = arg.result
    /\ pc' = "returned"
    /\ UNCHANGED <<heap, arg, text, wg, mutex, workers, calls>>

\* mutex.Lock() in a step of MapAsync
Lock ==
    /\ pc = "loop" /\ arg.op = "MapAsync"
    /\ ~mutex
    /\ \E id \in DOMAIN workers :
        /\ workers[id].pc = "go"
        /\ workers' = [workers EXCEPT ![id].pc = "locked"]
    /\ mutex' = TRUE
    /\ UNCHANGED <<heap, pc, arg, ret, text, wg, calls>>

\* The callback is entered.
Invoke ==
    /\ pc \in {"loop", "returned"}
    /\ \E id \in DOMAIN workers :
        /\ workers[id].pc = (IF arg.op = "MapAsync" THEN "locked" ELSE "go")
        /\ workers' = [workers EXCEPT ![id].pc = "function"]
        /\ calls' = Append(calls, <<"invoked", id>>)
    /\ UNCHANGED <<heap, pc, arg, ret, text, wg, mutex>>

\* The callback returns; a step of MapAsync stores what it returned.
Return ==
    /\ pc \in {"loop", "returned"}
    /\ \E id \in DOMAIN workers :
        /\ workers[id].pc = "function"
        /\ workers' = [workers EXCEPT ![id].pc = "finished"]
        /\ calls' = Append(calls, <<"finished", id>>)
        /\ heap' = IF arg.op # "MapAsync" THEN heap
                   ELSE IF arg.root[1] = TypeList
                   THEN listMapStep(heap, arg.result[2], id, workers[id].x)
                   ELSE objectMapStep(heap, arg.result[2], id, workers[id].x)
    /\ UNCHANGED <<pc, arg, ret, text, wg, mutex>>

\* mutex.Unlock() in a step of MapAsync
Unlock ==
    /\ pc \in {"loop", "returned"} /\ arg.op = "MapAsync"
    /\ \E id \in DOMAIN workers :
        /\ workers[id].pc = "finished"
        /\ workers' = [workers EXCEPT ![id].pc = "unlocked"]
    /\ mutex' = FALSE
    /\ UNCHANGED <<heap, pc, arg, ret, text, wg, calls>>

\* group.Done() at the end of a step
Done ==
    /\ pc \in {"loop", "returned"}
    /\ \E id \in DOMAIN workers :
        /\ workers[id].pc = (IF arg.op = "MapAsync" THEN "unlocked" ELSE "finished")
        /\ workers' = [workers EXCEPT ![id].pc = "done"]
    /\ wg' = wgDone(wg)
    /\ UNCHANGED <<heap, pc, arg, ret, text, mutex, calls>>

AsyncNext ==
    \/ AsyncConstruct \/ ForEachAsync \/ MapAsync \/ Go \/ Wait
    \/ Lock \/ Invoke \/ Return \/ Unlock \/ Done

SpecAsync == AsyncInit /\ [][AsyncNext]_vars

\* The number of entries of the log that are the event of the element.
Logged(event, id) == Cardinality({n \in 1..Len(calls) : calls[n] = <<event, id>>})

\* C6: in every interleaving MapAsync returns a container of the
\* receiver's kind that holds, at each index or key of the receiver and at
\* no other, what the callback returns for it, and leaves the receiver as
\* it was.
MapAsyncMaps ==
    (pc = "returned" /\ arg.op = "MapAsync") =>
        /\ ret[1] = arg.root[1]
        /\ Count(heap, ret) = Count(heap, arg.root)
        /\ Ids(heap, ret) = Ids(heap, arg.root)
        /\ \A id \in Ids(heap, arg.root) :
            Item(heap, ret, id) =
                parseVal(IF arg.root[1] = TypeList
                         THEN listFunction(id, getVal(Item(heap, arg.root, id)))
                         ELSE objectFunction(id, getVal(Item(heap, arg.root, id)))).f
        /\ ToTree(heap, arg.root) = arg.before

\* C6 reached: MapAsync of a list has returned after the goroutine of
\* index 1 ran its callback before the goroutine of index 0.
MappedOutOfOrder ==
    /\ pc = "returned" /\ arg.op = "MapAsync"
    /\ arg.root[1] = TypeList
    /\ Len(calls) >= 4
    /\ calls[1] = <<"invoked", 1>>

\* C7: the callback is never invoked twice for an element, and when
\* ForEachAsync or MapAsync returns it has been invoked once for every
\* element and every invocation has finished.
ReturnsAfterAllCallbacks ==
    /\ pc \in {"loop", "returned"} =>
        \A id \in Ids(heap, arg.root) : Logged("invoked", id) <= 1
    /\ pc = "returned" =>
        /\ \A id \in Ids(heap, arg.root) :
            Logged("invoked", id) = 1 /\ Logged("finished", id) = 1
        /\ Len(calls) = 2 * Count(heap, arg.root)
        /\ \A id \in DOMAIN workers : workers[id].pc \notin {"go", "locked", "function"}

\* C7 reached: ForEachAsync has returned after two callbacks ran at the
\* same time.
OverlappingCallbacksJoined ==
    /\ pc = "returned" /\ arg.op = "ForEachAsync"
    /\ Len(calls) >= 4
    /\ calls[1][1] = "invoked" /\ calls[2][1] = "invoked"

(***************************************************************************)
(* Parse errors.  A run takes a well-formed document, may break a line in  *)
(* it, then puts one rune in or cuts the text short, and parses it.        *)
(***************************************************************************)
\* The well-formed documents: each closes its root with its last rune.
Documents ==
    {[type |-> TypeList, text |-> <<"[", "1", ",", "\"", "s", "\"", ",", "[", "2", "]", "]">>],
     [type |-> TypeList, text |-> <<"[", "{", "\"", "a", "\"", ":", "n", "u", "l", "l", "}", "]">>],
     [type |-> TypeList, text |-> <<" ", "[", "t", "r", "u", "e", "]">>],
     [type |-> TypeObject, text |-> <<"{", "\"", "a", "\"", ":", "1", ",", "\"", "b", "\"", ":", "[", "2", "]", "}">>],
     [type |-> TypeObject, text |-> <<"{", "\"", "a", "\"", ":", "{", "\"", "b", "\"", ":", "\"", "s", "\"", "}", "}">>],
     [type |-> TypeObject, text |-> <<"\n", "{", "\"", "a", "\"", ":", "\"", "s", "\"", "}">>]}

\* The runes put into a document.
CorruptRunes == {BadByte, "x", ":"}

\* The offset of the root's opening bracket in the text.
RootStart == Index(text, IF arg.type = TypeList THEN "[" ELSE "{")

\* The text with a rune put in behind its first k runes.
PutIn(k, c) == Upto(text, k) \o <<c>> \o From(text, k)

ErrorsInit ==
    /\ heap = << >>
    /\ pc = "start"
    /\ arg = NoValue
    /\ ret = NoValue
    /\ text = << >>
    /\ wg = 0
    /\ mutex = FALSE
    /\ workers = << >>
    /\ calls = << >>

\* A well-formed document is taken as the text.
WriteDocument ==
    /\ pc = "start"
    /\ \E doc \in Documents :
        /\ text' = doc.text
        /\ arg' = [kind |-> "document", type |-> doc.type]
    /\ pc' = "text"
    /\ UNCHANGED <<heap, ret, wg, mutex, workers, calls>>

\* A line break is put in before the root's closing bracket.
BreakLine ==
    /\ pc = "text" /\ arg.kind = "document"
    /\ \E k \in 0..(Len(text) - 1) : text' = PutIn(k, "\n")
    /\ arg' = [kind |-> "lines", type |-> arg.type]
    /\ UNCHANGED <<heap, pc, ret, wg, mutex, workers, calls>>

\* One rune is put in behind the first k runes of the text.
Corrupt ==
    /\ pc = "text" /\ arg.kind \in {"document", "lines"}
    /\ \E k \in 0..Len(text), c \in CorruptRunes :
        /\ text' = PutIn(k, c)
        /\ arg' = [kind |-> "corrupted", type |-> arg.type, rune |-> c,
                   inside |-> RootStart < k /\ k < Len(text)]
    /\ UNCHANGED <<heap, pc, ret, wg, mutex, workers, calls>>

\* The text is cut short behind the root's opening bracket and before its
\* closing bracket.
Truncate ==
    /\ pc = "text" /\ arg.kind \in {"document", "lines"}
    /\ \E k \in (RootStart + 1)..(Len(text) - 1) : text' = Upto(text, k)
    /\ arg' = [kind |-> "truncated", type |-> arg.type]
    /\ UNCHANGED <<heap, pc, ret, wg, mutex, workers, calls>>

ErrorsNext == WriteDocument \/ BreakLine \/ Corrupt \/ Truncate \/ Parse

SpecErrors == ErrorsInit /\ [][ErrorsNext]_vars

\* C11 as stated: a text holding a byte sequence that is not valid UTF-8
\* makes ParseObject or ParseList fail with the invalid-encoding error and
\* return no container.
InvalidEncodingAnywhere ==
    (pc = "parsed" /\ arg.kind = "corrupted" /\ arg.rune = BadByte)
        => (ret.err = "encoding" /\ ret.val[2] = 0)

\* C11 amended: an invalid byte sequence between the root's opening
\* bracket and its closing bracket, with no other error before it, makes
\* the parse fail with the invalid-encoding error and return no container.
InvalidEncodingInsideRoot ==
    (pc = "parsed" /\ arg.kind = "corrupted" /\ arg.rune = BadByte /\ arg.inside)
        => (ret.err = "encoding" /\ ret.val[2] = 0)

\* C11 reached: [{"a":\xa0null}] has been parsed and rejected for its
\* encoding.
NestedEncodingRejected ==
    /\ pc = "parsed" /\ arg.kind = "corrupted"
    /\ text = <<"[", "{", "\"", "a", "\"", ":">> \o <<BadByte>> \o <<"n", "u", "l", "l", "}", "]">>
    /\ ret.err = "encoding"

\* C12 as stated, in part: every invalid-encoding, invalid-value,
\* unexpected-token and unexpected-end error carries a line number, from 1
\* up to the number of lines of the text.
ErrorsCarryLine ==
    (pc = "parsed" /\ ret.err \in {"encoding", "value", "token", "end"})
        => ret.errLine \in 1..(Cardinality({k \in 1..Len(text) : text[k] = "\n"}) + 1)

\* C13: a text that ends before its root or a nested container is closed
\* makes the parse return the unexpected-end error and no container.
TruncatedIsUnexpectedEnd ==
    (pc = "parsed" /\ arg.kind = "truncated")
        => (ret.err = "end" /\ ret.val[2] = 0)

\* C13 reached: [1,"s",[2 has been parsed, the nested list left open.
NestedLeftOpen ==
    /\ pc = "parsed" /\ arg.kind = "truncated"
    /\ text = <<"[", "1", ",", "\"", "s", "\"", ",", "[", "2">>
    /\ ret.err = "end"

(***************************************************************************)
(* Operations of a list.  A run builds a list and calls one operation.     *)
(***************************************************************************)
\* The length of the lists built and the number of indexes handed to
\* Delete.
MaxList == 3

MaxIndexes == 2

\* The elements of the lists: ints, strings, a float and a bool.
ListElems ==
    {Atom("int", 1), Atom("int", 2), Atom("string", <<"a">>), Atom("string", <<"b">>),
     Float(5, -1), Float(15, -1), Atom("bool", TRUE)}

\* A variant of SubList that counts only a negative end from the tail.
listSubListNegative(h, ego, start, end) ==
    LET cut(to) ==
            IF start > to \/ start < 0 THEN [h |-> h, panic |-> TRUE, ego |-> 0]
            ELSE [h |-> Append(h, SubSeq(h[ego], start + 1, to)), panic |-> FALSE,
                  ego |-> Len(h) + 1]
    IN  IF end > listCount(h, ego) \/ end < -listCount(h, ego)
        THEN [h |-> h, panic |-> TRUE, ego |-> 0]
        ELSE cut(IF end < 0 THEN listCount(h, ego) + end ELSE end)

\* list.SubList(start, end)
listSubList(h, ego, start, end) ==
    LET cut(to) ==
            IF start > to \/ start < 0 THEN [h |-> h, panic |-> TRUE, ego |-> 0]
            ELSE [h |-> Append(h, SubSeq(h[ego], start + 1, to)), panic |-> FALSE,
                  ego |-> Len(h) + 1]
    IN  IF end > listCount(h, ego) \/ end < -listCount(h, ego)
        THEN [h |-> h, panic |-> TRUE, ego |-> 0]
        ELSE cut(IF end <= 0 THEN listCount(h, ego) + end ELSE end)

\* A variant of Concat that appends to the receiver and hands it back.
listConcatInPlace(h, ego, another) ==
    [h |-> [h EXCEPT ![ego] = @ \o h[another]], ego |-> ego]

\* list.Concat(another): a new list of append(ego.val, another.val...).
\* The new list holds the fields of both, no copies of them.
listConcat(h, ego, another) ==
    [h |-> Append(h, h[ego] \o h[another]), ego |-> Len(h) + 1]

RECURSIVE stringLess(_, _)
\* a < b on strings: by the first rune they differ in, a prefix first.
stringLess(a, b) ==
    IF b = << >> THEN FALSE
    ELSE IF a = << >> THEN TRUE
    ELSE IF Head(a) # Head(b) THEN DigitOf(Head(a)) < DigitOf(Head(b))
    ELSE stringLess(Tail(a), Tail(b))

\* a < b on finite float64 values.
floatLess(a, b) ==
    LET scaled(e) == a[2] * 10^(a[3] - e) < b[2] * 10^(b[3] - e)
    IN  scaled(IF a[3] < b[3] THEN a[3] ELSE b[3])

\* The order sort.Strings, sort.Ints and sort.Float64s sort by.
less(type, a, b) ==
    CASE type = TypeString -> stringLess(a, b)
      [] type = TypeInt -> a < b
      [] type = TypeFloat -> floatLess(a, b)

\* A variant of the sort that leaves the slice as it is.
sortSliceNone(type, s) == s

RECURSIVE sortSlice(_, _)
\* sort.Strings, sort.Ints or sort.Float64s: the values in ascending order.
sortSlice(type, s) ==
    LET least(m) == <<m>> \o sortSlice(type, SelectSeq(s, LAMBDA x : x # m)
                                               \o Tail(SelectSeq(s, LAMBDA x : x = m)))
    IN  IF s = << >> THEN << >>
        ELSE least(CHOOSE m \in {s[i] : i \in 1..Len(s)} :
                        \A i \in 1..Len(s) : ~less(type, s[i], m))

\* StringSlice, IntSlice or FloatSlice: the values of the elements of the
\* type, in their order; the other elements are left out.
typedSlice(h, ego, type) ==
    LET values(fields) == [i \in 1..Len(fields) |-> fields[i][2]]
    IN  values(SelectSeq(h[ego], LAMBDA f : f[1] = type))

\* list.Sort(): the type of the first element chooses the slice, and the
\* values of the list made of the sorted slice become the list's.
listSort(h, ego) ==
    LET sorted(type, slice) ==
            [h |-> [Append(h, [i \in 1..Len(slice) |-> <<type, slice[i]>>])
                        EXCEPT ![ego] = [i \in 1..Len(slice) |-> <<type, slice[i]>>]],
             panic |-> FALSE]
        sort(type) == sorted(type, sortSlice(type, typedSlice(h, ego, type)))
    IN  IF listCount(h, ego) = 0 THEN [h |-> h, panic |-> TRUE]
        ELSE IF h[ego][1][1] \in {TypeString, TypeInt, TypeFloat} THEN sort(h[ego][1][1])
        ELSE [h |-> h, panic |-> TRUE]

\* The ints ReduceInts passes to its function: the elements that are
\* ints, in their order; the others are skipped.
reduceInts(h, ego) == typedSlice(h, ego, TypeInt)

RECURSIVE listIntSumFrom(_, _)
listIntSumFrom(ints, result) ==
    IF ints = << >> THEN result ELSE listIntSumFrom(Tail(ints), result + Head(ints))

\* list.IntSum(): the sum of the elements that are ints.
listIntSum(h, ego) == listIntSumFrom(reduceInts(h, ego), 0)

RECURSIVE listIntProdFrom(_, _)
listIntProdFrom(ints, result) ==
    IF ints = << >> THEN result ELSE listIntProdFrom(Tail(ints), result * Head(ints))

\* list.IntProd(): the product of the elements that are ints.
listIntProd(h, ego) == listIntProdFrom(reduceInts(h, ego), 1)

\* list.IntMin(): the least of the elements that are ints, 0 when no
\* element is one (the initial math.MaxInt is above every int).
listIntMin(h, ego) ==
    LET min(ints) == CHOOSE m \in {ints[i] : i \in 1..Len(ints)} :
                        \A i \in 1..Len(ints) : m <= ints[i]
        present(ints) == IF ints = << >> THEN 0 ELSE min(ints)
    IN  present(reduceInts(h, ego))

\* list.IntMax(): the greatest of the elements that are ints, 0 when no
\* element is one.
listIntMax(h, ego) ==
    LET max(ints) == CHOOSE m \in {ints[i] : i \in 1..Len(ints)} :
                        \A i \in 1..Len(ints) : m >= ints[i]
        present(ints) == IF ints = << >> THEN 0 ELSE max(ints)
    IN  present(reduceInts(h, ego))

ListInit ==
    /\ heap = << >>
    /\ pc = "start"
    /\ arg = NoValue
    /\ ret = NoValue
    /\ text = << >>
    /\ wg = 0
    /\ mutex = FALSE
    /\ workers = << >>
    /\ calls = << >>

\* l := List(...)
ListConstruct ==
    LET built(made) ==
            /\ heap' = made.h
            /\ arg' = [list |-> FieldOf(made.val), before |-> ToTree(made.h, FieldOf(made.val))]
    IN  /\ pc = "start"
        /\ \E elems \in SeqsUpTo(ListElems, MaxList) : built(Build(heap, <<"List", elems>>))
        /\ pc' = "built"
        /\ UNCHANGED <<ret, text, wg, mutex, workers, calls>>

\* a := l.SubList(0, -k); b := l.SubList(0, l.Count() - k)
SubListTwice ==
    LET second(k, a, b) ==
            /\ heap' = b.h
            /\ ret' = [panic |-> a.panic \/ b.panic, a |-> <<TypeList, a.ego>>,
                       b |-> <<TypeList, b.ego>>]
            /\ arg' = [list |-> arg.list, before |-> arg.before, op |-> "SubList", k |-> k]
        first(k, a) == second(k, a, listSubList(a.h, arg.list[2], 0, listCount(heap, arg.list[2]) - k))
    IN  /\ pc = "built"
        /\ \E k \in 0..listCount(heap, arg.list[2]) : first(k, listSubList(heap, arg.list[2], 0, -k))
        /\ pc' = "called"
        /\ UNCHANGED <<text, wg, mutex, workers, calls>>

\* l.Delete(indexes...)
Delete ==
    LET deleted(indexes, d) ==
            /\ heap' = d.h
            /\ ret' = [panic |-> d.panic]
            /\ arg' = [list |-> arg.list, before |-> arg.before, op |-> "Delete",
                       indexes |-> indexes]
    IN  /\ pc = "built"
        /\ \E indexes \in SeqsUpTo((-1)..listCount(heap, arg.list[2]), MaxIndexes) :
            deleted(indexes, listDelete(heap, arg.list[2], indexes))
        /\ pc' = "called"
        /\ UNCHANGED <<text, wg, mutex, workers, calls>>

\* l.Replace(index, value)
Replace ==
    LET replaced(index, made, r) ==
            /\ heap' = r.h
            /\ ret' = [panic |-> r.panic]
            /\ arg' = [list |-> arg.list, before |-> arg.before, op |-> "Replace",
                       index |-> index, value |-> ToTree(made.h, FieldOf(made.val))]
        call(index, made) == replaced(index, made, listReplace(made.h, arg.list[2], index, made.val))
    IN  /\ pc = "built"
        /\ \E index \in (-1)..(listCount(heap, arg.list[2]) + 1),
              expr \in {Atom("int", 9), <<"List", <<Atom("int", 9)>>>>} :
            call(index, Build(heap, expr))
        /\ pc' = "called"
        /\ UNCHANGED <<text, wg, mutex, workers, calls>>

\* c := l.Concat(m), for another list m or for l itself
ListConcat ==
    LET concatenated(m, c) ==
            /\ heap' = c.h
            /\ ret' = [panic |-> FALSE, val |-> <<TypeList, c.ego>>]
            /\ arg' = [list |-> arg.list, before |-> arg.before, op |-> "Concat",
                       another |-> m, anotherBefore |-> ToTree(c.h, m)]
        call(h, m) == concatenated(m, listConcat(h, arg.list[2], m[2]))
        built(made) == call(made.h, FieldOf(made.val))
    IN  /\ pc = "built"
        /\ \/ \E elems \in SeqsUpTo({Atom("int", 9), <<"List", <<Atom("int", 9)>>>>}, 2) :
                built(Build(heap, <<"List", elems>>))
           \/ call(heap, arg.list)
        /\ pc' = "called"
        /\ UNCHANGED <<text, wg, mutex, workers, calls>>

\* l.Sort()
Sort ==
    LET sorted(r) ==
            /\ heap' = r.h
            /\ ret' = [panic |-> r.panic]
    IN  /\ pc = "built"
        /\ sorted(listSort(heap, arg.list[2]))
        /\ arg' = [list |-> arg.list, before |-> arg.before, op |-> "Sort"]
        /\ pc' = "called"
        /\ UNCHANGED <<text, wg, mutex, workers, calls>>

\* l.IntSum(), l.IntProd(), l.IntMin() or l.IntMax(): none of them has a
\* statement that panics.
IntReduce ==
    /\ pc = "built"
    /\ \E op \in {"IntSum", "IntProd", "IntMin", "IntMax"} :
        /\ arg' = [list |-> arg.list, before |-> arg.before, op |-> op]
        /\ ret' = [panic |-> FALSE,
                   val |-> CASE op = "IntSum" -> listIntSum(heap, arg.list[2])
                             [] op = "IntProd" -> listIntProd(heap, arg.list[2])
                             [] op = "IntMin" -> listIntMin(heap, arg.list[2])
                             [] op = "IntMax" -> listIntMax(heap, arg.list[2])]
    /\ pc' = "called"
    /\ UNCHANGED <<heap, text, wg, mutex, workers, calls>>

ListNext ==
    ListConstruct \/ SubListTwice \/ Delete \/ Replace \/ ListConcat \/ Sort \/ IntReduce

SpecList == ListInit /\ [][ListNext]_vars

\* C14 as stated: for every k from 0 to the count, SubList(0, -k) equals
\* SubList(0, Count() - k).
SubListFromTail ==
    (pc = "called" /\ arg.op = "SubList")
        => (~ret.panic /\ isEqual(heap, ret.a, ret.b))

\* C14 amended: for every k from 0 below the count, and for k = 0 on the
\* empty list, SubList(0, -k) equals SubList(0, Count() - k), the first
\* Count() - k elements.
SubListFromTailBelowCount ==
    (/\ pc = "called" /\ arg.op = "SubList"
     /\ (arg.k < Len(arg.before[2]) \/ Len(arg.before[2]) = 0))
        => /\ ~ret.panic /\ isEqual(heap, ret.a, ret.b)
           /\ ToTree(heap, ret.a) = <<TypeList, SubSeq(arg.before[2], 1, Len(arg.before[2]) - arg.k)>>

\* C14 reached: the last two of three elements have been cut both ways.
SubListCutTwo ==
    /\ pc = "called" /\ arg.op = "SubList"
    /\ Len(arg.before[2]) = 3 /\ arg.k = 2
    /\ listCount(heap, ret.a[2]) = 1 /\ listCount(heap, ret.b[2]) = 1

RECURSIVE Without(_, _)
\* The elements of a sequence at the positions, counted from 0, outside a
\* set, in their order.
Without(s, positions) ==
    IF s = << >> THEN << >>
    ELSE Without(SubSeq(s, 1, Len(s) - 1), positions)
            \o (IF (Len(s) - 1) \in positions THEN << >> ELSE <<s[Len(s)]>>)

\* C15 as stated: Delete with indexes that are all valid, in any order,
\* removes the elements at those positions and keeps the others in their
\* order; it fails when an index is outside 0..count-1.
DeleteRemovesPositions ==
    (pc = "called" /\ arg.op = "Delete") =>
        IF \A i \in 1..Len(arg.indexes) : arg.indexes[i] \in 0..(Len(arg.before[2]) - 1)
        THEN /\ ~ret.panic
             /\ ToTree(heap, arg.list)[2]
                    = Without(arg.before[2], {arg.indexes[i] : i \in 1..Len(arg.indexes)})
        ELSE ret.panic

\* C16: Replace succeeds only for an index from 0 below the count, where
\* it overwrites that slot and leaves the count and the other slots as
\* they were; for the count and any other index it fails and adds nothing.
ReplaceOnlyInRange ==
    (pc = "called" /\ arg.op = "Replace") =>
        IF arg.index \in 0..(Len(arg.before[2]) - 1)
        THEN /\ ~ret.panic
             /\ ToTree(heap, arg.list) = <<TypeList, [arg.before[2] EXCEPT ![arg.index + 1] = arg.value]>>
        ELSE ret.panic /\ ToTree(heap, arg.list) = arg.before

\* C16 reached: Replace at the count of a list of two has failed.
ReplaceAtCountFailed ==
    /\ pc = "called" /\ arg.op = "Replace"
    /\ Len(arg.before[2]) = 2 /\ arg.index = 2
    /\ ret.panic

Variants(elems) == {elems[i][1] : i \in 1..Len(elems)}

\* The elements are in ascending order.
Ascending(elems) ==
    \A i \in 1..(Len(elems) - 1) : ~less(elems[i][1], elems[i + 1][2], elems[i][2])

\* Two sequences hold the same elements, each as often.
SameElements(s, t) ==
    /\ Len(s) = Len(t)
    /\ \A x \in {s[i] : i \in 1..Len(s)} \cup {t[i] : i \in 1..Len(t)} :
        Cardinality({i \in 1..Len(s) : s[i] = x}) = Cardinality({i \in 1..Len(t) : t[i] = x})

\* C18 as stated, for a list that is not empty: Sort fails when the list
\* holds more than one variant or its first element is no String, Int or
\* Float; else it puts the same elements in ascending order.
SortFailsOnMixed ==
    (pc = "called" /\ arg.op = "Sort" /\ Len(arg.before[2]) > 0) =>
        IF Cardinality(Variants(arg.before[2])) > 1
            \/ arg.before[2][1][1] \notin {TypeString, TypeInt, TypeFloat}
        THEN ret.panic
        ELSE /\ ~ret.panic
             /\ Ascending(ToTree(heap, arg.list)[2])
             /\ SameElements(ToTree(heap, arg.list)[2], arg.before[2])

\* C18 amended: Sort fails when the list is empty or its first element is
\* no String, Int or Float, and leaves the list as it was; else it keeps
\* the elements of the first element's variant, drops the others, and puts
\* the kept ones in ascending order.
SortKeepsFirstVariant ==
    (pc = "called" /\ arg.op = "Sort") =>
        IF Len(arg.before[2]) = 0
            \/ arg.before[2][1][1] \notin {TypeString, TypeInt, TypeFloat}
        THEN ret.panic /\ ToTree(heap, arg.list) = arg.before
        ELSE /\ ~ret.panic
             /\ Ascending(ToTree(heap, arg.list)[2])
             /\ SameElements(ToTree(heap, arg.list)[2],
                             SelectSeq(arg.before[2], LAMBDA e : e[1] = arg.before[2][1][1]))

\* C18 reached: the list of 2, "a" and 1 has been sorted to 1 and 2.
SortDroppedString ==
    /\ pc = "called" /\ arg.op = "Sort"
    /\ arg.before[2] = <<newInt(2), newString(<<"a">>), newInt(1)>>
    /\ ToTree(heap, arg.list)[2] = <<newInt(1), newInt(2)>>

\* C19 as stated: IntSum, IntProd, IntMin and IntMax fail exactly when the
\* list holds an element that is not an int.
IntReductionsFailOnOthers ==
    (pc = "called" /\ arg.op \in {"IntSum", "IntProd", "IntMin", "IntMax"}) =>
        (ret.panic <=> \E i \in 1..Len(arg.before[2]) : arg.before[2][i][1] # TypeInt)

\* ---------------------------------------------------------------------
\* Object.Set with any arguments.

\* The most arguments of one call of Set.
MaxArgs == 3

\* The values passed to Set, as keys and as values.
SetArgs == {<<"string", << >>>>, <<"string", <<"a">>>>, <<"string", <<"b">>>>,
            <<"int", 1>>, <<"bool", TRUE>>}

SetInit ==
    /\ heap = << >>
    /\ pc = "start"
    /\ arg = << >>
    /\ ret = << >>
    /\ text = << >>
    /\ wg = 0
    /\ mutex = FALSE
    /\ workers = << >>
    /\ calls = << >>

\* o := Object() or Object("a", 1)
SetConstruct ==
    LET made(o) ==
            /\ heap' = o.h
            /\ arg' = [object |-> o.ego]
    IN  /\ pc = "start"
        /\ \E values \in {<< >>, <<<<"string", <<"a">>>>, <<"int", 1>>>>} : made(NewObject(heap, values))
        /\ pc' = "built"
        /\ UNCHANGED <<ret, text, wg, mutex, workers, calls>>

\* o.Set(values...)
Set ==
    LET set(values, r) ==
            /\ heap' = r.h
            /\ arg' = [object |-> arg.object, op |-> "Set", values |-> values]
            /\ ret' = [panic |-> r.panic]
    IN  /\ pc = "built"
        /\ \E values \in SeqsUpTo(SetArgs, MaxArgs) :
            set(values, objectSet(heap, arg.object, values))
        /\ pc' = "called"
        /\ UNCHANGED <<text, wg, mutex, workers, calls>>

\* o.Unset(keys...)
Unset ==
    LET unset(keys, r) ==
            /\ heap' = r.h
            /\ arg' = [object |-> arg.object, op |-> "Unset", keys |-> keys,
                       before |-> heap[arg.object]]
            /\ ret' = [panic |-> r.panic]
    IN  /\ pc = "built"
        /\ \E keys \in SeqsUpTo({<<"a">>, <<"b">>}, MaxArgs) :
            unset(keys, objectUnset(heap, arg.object, keys))
        /\ pc' = "called"
        /\ UNCHANGED <<text, wg, mutex, workers, calls>>

SetNext == SetConstruct \/ Set \/ Unset

SpecSet == SetInit /\ [][SetNext]_vars

\* C20 as stated: Set fails on an odd number of arguments, fails when a
\* key argument is not a string or is the empty string, and the empty
\* string is never a key of the object.
SetRejectsBadKeys ==
    (pc = "called" /\ arg.op = "Set") =>
        /\ Len(arg.values) % 2 # 0 => ret.panic
        /\ (\E i \in 1..Len(arg.values) :
                i % 2 = 1 /\ (arg.values[i][1] # "string" \/ arg.values[i][2] = << >>))
            => ret.panic
        /\ << >> \notin DOMAIN heap[arg.object]

\* C21 as stated: Unset of one key the object does not hold does not fail
\* and leaves the object as it was.
UnsetMissingDoesNothing ==
    (pc = "called" /\ arg.op = "Unset" /\ Len(arg.keys) = 1
        /\ arg.keys[1] \notin DOMAIN arg.before) =>
        ~ret.panic /\ heap[arg.object] = arg.before

\* C22: a.Merge(b) returns a new object whose keys are the keys of a and
\* of b; a key of b has b's value, any other key has a's value; a and b
\* are as they were.
MergeIsRightBiasedUnion ==
    LET holds(m, a, b) ==
            /\ DOMAIN m = DOMAIN a \cup DOMAIN b
            /\ \A k \in DOMAIN b : m[k] = b[k]
            /\ \A k \in DOMAIN a \ DOMAIN b : m[k] = a[k]
    IN  (pc = "merged") =>
            /\ ret.val[1] = TypeObject
            /\ ret.val[2] \notin {arg.a[2], arg.b[2]}
            /\ holds(ToTree(heap, ret.val)[2], ret.a[2], ret.b[2])
            /\ ToTree(heap, arg.a) = ret.a
            /\ ToTree(heap, arg.b) = ret.b

\* C22 reached: a holds the keys "a" and "b", b holds "a" with another
\* value, and the merged object holds b's value of "a" and a's of "b".
MergedWithConflict ==
    /\ pc = "merged"
    /\ DOMAIN ret.a[2] = {<<"a">>, <<"b">>}
    /\ DOMAIN ret.b[2] = {<<"a">>}
    /\ ret.a[2][<<"a">>] # ret.b[2][<<"a">>]
    /\ ToTree(heap, ret.val)[2][<<"a">>] = ret.b[2][<<"a">>]
    /\ ToTree(heap, ret.val)[2][<<"b">>] = ret.a[2][<<"b">>]

\* C23 as stated: SetTF on a list with a first index above the count
\* succeeds; the list then reaches to the index, the positions from the
\* old count up to the index hold nil, and a path of one segment has put
\* the value at the index.
SetTFPastEndExtends ==
    LET extended(list, index) ==
            /\ pc = "set"
            /\ Len(list) = index + 1
            /\ \A i \in arg.count..(index - 1) : list[i + 1][1] = TypeNil
            /\ Len(arg.path) = 1 => list[index + 1] = FieldOf(arg.value)
    IN  (/\ pc \in {"set", "panicked"}
         /\ arg.root[1] = TypeList
         /\ ParseInt(Tail(arg.path[1])).val > arg.count)
            => extended(heap[arg.root[2]], ParseInt(Tail(arg.path[1])).val)

\* No value: what a path that does not resolve leads to.
Unresolved == <<TypeUndefined, 0>>

RECURSIVE TreeAt(_, _)
\* The value a path of segments leads to in a tree: an index segment
\* needs a list that holds the index, a key segment an object that holds
\* the key.
TreeAt(tree, path) ==
    LET index(i) ==
            IF tree[1] = TypeList /\ i.ok /\ i.val >= 0 /\ i.val < Len(tree[2])
            THEN TreeAt(tree[2][i.val + 1], Tail(path)) ELSE Unresolved
        key(k) ==
            IF tree[1] = TypeObject /\ k \in DOMAIN tree[2]
            THEN TreeAt(tree[2][k], Tail(path)) ELSE Unresolved
    IN  IF path = << >> THEN tree
        ELSE IF Head(path)[1] = "#" THEN index(ParseInt(Tail(Head(path))))
        ELSE key(Tail(Head(path)))

\* C24 as stated: UnsetTF with a path that does not resolve does not fail
\* and leaves the structure as it was.
UnsetTFMissingDoesNothing ==
    (pc \in {"unset", "unset failed"} /\ TreeAt(arg.tree, arg.path) = Unresolved) =>
        (pc = "unset" /\ ToTree(heap, arg.root) = arg.tree)

\* C25: TypeOfTF never fails; it returns the variant of the value the path
\* leads to when every segment resolves, and TypeUndefined for any other
\* path and for a string that is no path.
TypeOfTFNeverFails ==
    (pc = "typed") =>
        /\ ~ret.panic
        /\ ret.val = (IF arg.path = << >> THEN TypeUndefined
                      ELSE TreeAt(arg.tree, arg.path)[1])

\* C25 reached: the type of "#0#0" in the list of a list of an int was
\* asked for, and the type of "#0#1", which the inner list does not hold.
TypeOfNestedElement ==
    /\ pc = "typed"
    /\ arg.tree = <<TypeList, <<<<TypeList, <<newInt(1)>>>>>>>>
    /\ \/ text = <<"#", "0", "#", "0">> /\ ret.val = TypeInt
       \/ text = <<"#", "0", "#", "1">> /\ ret.val = TypeUndefined

\* C26 as stated: in MapAsync the mutex is held only for the write of a
\* result that is already computed, so no callback runs while the mutex
\* is held.
MutexOnlyAroundWrite ==
    (pc \in {"loop", "returned"} /\ arg.op = "MapAsync") =>
        \A id \in DOMAIN workers : workers[id].pc = "function" => ~mutex

\* C27 as stated: two paths that do not resolve in the same structure have
\* outcomes of the same kind from GetTF, both a failure or both nil.
GetTFOnePolicy ==
    (/\ pc = "resolved"
     /\ TreeAt(arg.tree, arg.p) = Unresolved
     /\ TreeAt(arg.tree, arg.q) = Unresolved)
        => \/ ret.p.panic /\ ret.q.panic
           \/ /\ ~ret.p.panic /\ ret.p.val = <<"nil", 0>>
              /\ ~ret.q.panic /\ ret.q.val = <<"nil", 0>>

\* ---------------------------------------------------------------------
\* The slices behind the lists.  Here the heap holds the arrays, each as
\* long as its capacity, and the val of a list is a slice of one of them:
\* the address of the array and a length.

\* The most elements of a list that is constructed.
MaxSlice == 3

\* The most calls after the Concat.
MaxLater == 2

\* The fields of s, ego.val[0:len].
sliceElems(h, s) == SubSeq(h[s.array], 1, s.len)

\* append(s, elems...): in place when the capacity is enough, else into a
\* new array.  The compiler grows a small slice to twice its capacity, or
\* to the length needed when that is more.
append(h, s, elems) ==
    LET inPlace(need) ==
            [h |-> [h EXCEPT ![s.array] =
                        [i \in 1..Len(@) |-> IF i > s.len /\ i <= need THEN elems[i - s.len]
                                             ELSE @[i]]],
             s |-> [array |-> s.array, len |-> need]]
        grown(need, newcap) ==
            [h |-> Append(h, [i \in 1..newcap |->
                                IF i <= s.len THEN h[s.array][i]
                                ELSE IF i <= need THEN elems[i - s.len] ELSE NoField]),
             s |-> [array |-> Len(h) + 1, len |-> need]]
        fit(need, cap) ==
            IF need <= cap THEN inPlace(need)
            ELSE grown(need, IF need > 2 * cap THEN need ELSE 2 * cap)
    IN  fit(s.len + Len(elems), Len(h[s.array]))

RECURSIVE sliceAdd(_, _, _)
\* list.Add(values...): ego.val = append(ego.val, parseVal(val)) for each
\* value in turn.
sliceAdd(h, s, values) ==
    LET next(r) == sliceAdd(r.h, r.s, Tail(values))
    IN  IF values = << >> THEN [h |-> h, s |-> s, panic |-> FALSE]
        ELSE next(append(h, s, <<FieldOf(Head(values))>>))

\* NewList(values...): val starts as []field{}, then Add.
sliceNewList(h, values) == sliceAdd(Append(h, << >>), [array |-> Len(h) + 1, len |-> 0], values)

\* list.Insert(index, value)
sliceInsert(h, s, index, value) ==
    LET put(r) == [h |-> [r.h EXCEPT ![r.s.array][index + 1] = FieldOf(value)], s |-> r.s,
                   panic |-> FALSE]
    IN  IF index < 0 \/ index > s.len THEN [h |-> h, s |-> s, panic |-> TRUE]
        ELSE IF index = s.len THEN sliceAdd(h, s, <<value>>)
        ELSE put(append(h, [array |-> s.array, len |-> index + 1],
                        SubSeq(h[s.array], index + 1, s.len)))

\* list.Replace(index, value)
sliceReplace(h, s, index, value) ==
    IF index < 0 \/ index >= s.len THEN [h |-> h, s |-> s, panic |-> TRUE]
    ELSE [h |-> [h EXCEPT ![s.array][index + 1] = FieldOf(value)], s |-> s, panic |-> FALSE]

\* list.Concat(another): the val of the new list is
\* append(ego.val, another.val...).
sliceConcat(h, s, another) == append(h, s, sliceElems(h, another))

\* The values the lists are made of and the value written later.
SliceValues == {<<"int", 1>>, <<"int", 2>>}

Later == <<"int", 9>>

SlicesInit ==
    /\ heap = << >>
    /\ pc = "start"
    /\ arg = << >>
    /\ ret = << >>
    /\ text = << >>
    /\ wg = 0
    /\ mutex = FALSE
    /\ workers = << >>
    /\ calls = << >>

\* L := NewList(...); M := NewList(...)
SlicesConstruct ==
    LET second(l, m) ==
            /\ heap' = m.h
            /\ arg' = [L |-> l.s, M |-> m.s]
        first(l, values) == second(l, sliceNewList(l.h, values))
    IN  /\ pc = "start"
        /\ \E x \in SeqsUpTo(SliceValues, MaxSlice), y \in SeqsUpTo(SliceValues, MaxSlice) :
            first(sliceNewList(heap, x), y)
        /\ pc' = "built"
        /\ UNCHANGED <<ret, text, wg, mutex, workers, calls>>

\* c := L.Concat(M)
SlicesConcat ==
    LET joined(r) ==
            /\ heap' = r.h
            /\ arg' = [L |-> arg.L, M |-> arg.M, c |-> r.s, later |-> 0, op |-> "Concat",
                       on |-> "L", lBefore |-> sliceElems(heap, arg.L),
                       mBefore |-> sliceElems(heap, arg.M),
                       cBefore |-> sliceElems(r.h, r.s)]
    IN  /\ pc = "built"
        /\ joined(sliceConcat(heap, arg.L, arg.M))
        /\ pc' = "joined"
        /\ UNCHANGED <<ret, text, wg, mutex, workers, calls>>

\* A later call on L: L.Add(9), L.Insert(i, 9), L.Replace(i, 9) or
\* L.Concat(M).
LaterOnL ==
    LET called(op, r, l) ==
            /\ heap' = r.h
            /\ arg' = [arg EXCEPT !.L = l, !.later = @ + 1, !.op = op, !.on = "L",
                                  !.lBefore = sliceElems(heap, arg.L),
                                  !.cBefore = sliceElems(heap, arg.c)]
            /\ ret' = [panic |-> r.panic]
        mutated(op, r) == called(op, r, r.s)
        concatenated(r) == called("Concat", [h |-> r.h, panic |-> FALSE], arg.L)
    IN  /\ pc = "joined"
        /\ arg.later < MaxLater
        /\ \/ mutated("Add", sliceAdd(heap, arg.L, <<Later>>))
           \/ \E i \in 0..arg.L.len : mutated("Insert", sliceInsert(heap, arg.L, i, Later))
           \/ \E i \in 0..(arg.L.len - 1) : mutated("Replace", sliceReplace(heap, arg.L, i, Later))
           \/ concatenated(sliceConcat(heap, arg.L, arg.M))
        /\ UNCHANGED <<pc, text, wg, mutex, workers, calls>>

\* A later call on c: c.Replace(i, 9).
LaterOnC ==
    LET called(r) ==
            /\ heap' = r.h
            /\ arg' = [arg EXCEPT !.later = @ + 1, !.op = "Replace", !.on = "c",
                                  !.lBefore = sliceElems(heap, arg.L),
                                  !.cBefore = sliceElems(heap, arg.c)]
            /\ ret' = [panic |-> r.panic]
    IN  /\ pc = "joined"
        /\ arg.later < MaxLater
        /\ \E i \in 0..(arg.c.len - 1) : called(sliceReplace(heap, arg.c, i, Later))
        /\ UNCHANGED <<pc, text, wg, mutex, workers, calls>>

SlicesNext == SlicesConstruct \/ SlicesConcat \/ LaterOnL \/ LaterOnC

SpecSlices == SlicesInit /\ [][SlicesNext]_vars

\* C28 as stated: after c := L.Concat(M), a later Add, Insert, Replace or
\* Concat on L leaves every element of c as it was, and a later Replace on
\* c leaves every element of L as it was.
ConcatSharesNothing ==
    (pc = "joined" /\ arg.later > 0) =>
        /\ arg.on = "L" => sliceElems(heap, arg.c) = arg.cBefore
        /\ arg.on = "c" => sliceElems(heap, arg.L) = arg.lBefore

\* C29 as stated: a Delete that fails because one of its indexes is out
\* of range leaves the list holding the elements it held before the call.
FailingDeleteHasNoEffect ==
    (/\ pc = "called" /\ arg.op = "Delete" /\ ret.panic
     /\ \E i \in 1..Len(arg.indexes) : arg.indexes[i] \notin 0..(Len(arg.before[2]) - 1))
        => ToTree(heap, arg.list) = arg.before

RECURSIVE HoldsRune(_, _)
\* The rune is in a string or a key of the tree.
HoldsRune(tree, c) ==
    CASE tree[1] = TypeList -> \E i \in 1..Len(tree[2]) : HoldsRune(tree[2][i], c)
      [] tree[1] = TypeObject ->
            \E k \in DOMAIN tree[2] :
                \/ \E i \in 1..Len(k) : k[i] = c
                \/ HoldsRune(tree[2][k], c)
      [] tree[1] = TypeString -> \E i \in 1..Len(tree[2]) : tree[2][i] = c
      [] OTHER -> FALSE

\* C30 as stated, for a letter put in between the brackets of the root of
\* a well-formed document: when the parser succeeds, the letter is in the
\* container it returns.
NothingSkipped ==
    (/\ pc = "parsed" /\ arg.kind = "corrupted" /\ arg.rune = "x" /\ arg.inside
     /\ ret.err = "")
        => HoldsRune(ToTree(heap, ret.val), "x")

=============================================================================
